---- MODULE Spec2Model ----
(***************************************************************************)
(* gh-issue-sync: the process lock (package lock) and the push             *)
(* orchestrator (App.Push) as state machines.                              *)
(*                                                                         *)
(* Time is counted in poll intervals (PollInterval = 100ms is one tick).   *)
(* File-system calls are atomic steps.  Those of the lock fail only for    *)
(* the reasons the code distinguishes (file absent, file already present); *)
(* of the writes of Push, those of the remapping loop may fail.            *)
(***************************************************************************)
EXTENDS Integers, FiniteSets, Sequences, TLC

(***************************************************************************)
(* Bounds                                                                  *)
(***************************************************************************)
MaxTimeout == 1
MaxEdits == 2
MaxParts == 3
\* The members of a slice and the characters of a body that Normalize is
\* given
MaxItems == 2
MaxBody == 3
\* The fields in which the three records of a merge differ
MaxDiverged == 2
\* The identifiers generated for one store
MaxIds == 3

\* Two processes compete for one lock directory.
Procs == {1, 2}
\* A pid that no running process has (TestStaleLockRemoved uses 999999999;
\* isProcessAlive also rejects pid <= 0).
StalePid == 0
Pids == Procs \cup {StalePid}
\* no LockInfo parsed yet
NoPid == -1
Timeouts == {0, MaxTimeout}

(***************************************************************************)
(* The marker file lock.json: absent, unparsable bytes, created but not    *)
(* yet written (O_EXCL create and Write are two system calls), or a        *)
(* LockInfo naming its owner.                                              *)
(***************************************************************************)
NoMarker == [kind |-> "none", pid |-> StalePid]
GarbageMarker == [kind |-> "garbage", pid |-> StalePid]
EmptyMarker(p) == [kind |-> "empty", pid |-> p]
InfoMarker(p) == [kind |-> "info", pid |-> p]
Markers == {NoMarker, GarbageMarker}
             \cup {EmptyMarker(p) : p \in Procs}
             \cup {InfoMarker(p) : p \in Pids}

VARIABLES
  marker,     \* content of lockDir/lock.json
  alive,      \* alive[p]: process p is running
  pc,         \* pc[p]: position of p inside Acquire / Release
  info,       \* info[p]: LockInfo.PID that p parsed from the marker
  deadline,   \* deadline[p]: Acquire's deadline minus the current time
  wake,       \* wake[p]: ticks until p's Sleep(PollInterval) may return
  holding,    \* holding[p]: p has a successful, not yet released Acquire
  released,   \* released[p]: p has a Lock handle it already released
  relOf,      \* relOf[p]: handle of the Release call p is inside ("none": no call)
  result,     \* result[p]: the error value of p's last Acquire / Release ("ok" is nil)
  files,      \* the local record set: one issue file per slot
  originals,  \* originals[n]: the Original Snapshot stored under number n
  remote,     \* remote[n]: issue n of the remote tracker
  push,       \* push[p]: options, position and local variables of p's App.Push
  log,        \* every access of the store and every remote call, in order
  vocab,      \* the labels and milestones of the remote tracker
  cache,      \* the names in the local label and milestone cache files
  comments,   \* the pending comment files and the comments posted remotely
  sent,       \* the issue numbers and references handed to remote calls
  arg,        \* the issue and the mapping a call of applyMapping is given
  out         \* the issue as that call left it and the value it returned

lockVars == <<marker, alive, pc, info, deadline, wake,
              holding, released, relOf, result>>
vocabVars == <<vocab, cache, comments>>
sideVars == <<vocabVars, sent>>
mapVars == <<arg, out>>
pushVars == <<files, originals, remote, push, log, sideVars, mapVars>>
vars == <<lockVars, pushVars>>

(***************************************************************************)
(* Issue records (issue.Issue).  Labels, assignees, blocked-by and blocks   *)
(* are sets: every comparison in the code goes through Normalize, which    *)
(* sorts them.  Title and body are sequences of characters.                *)
(* synced is "old" for a timestamp written before this run and "new" for   *)
(* a.Now() of this run.                                                    *)
(***************************************************************************)
\* Issue numbers of the remote tracker, in the order the tracker assigns them
NumberSeq == <<"1", "2", "3">>
Numbers == {NumberSeq[i] : i \in 1..Len(NumberSeq)}
\* Provisional identifiers of records created offline
LocalIds == {"T1", "T2", "T10"}
\* no issue / no file / no snapshot under that number
NoRecord == [number |-> "none"]

\* IssueNumber.IsLocal, IssueRef.IsLocal: strings.HasPrefix(n, "T")
IsLocal(n) == n \in LocalIds

\* The fields a record is compared on
Fields == {"title", "body", "milestone", "labels", "assignees", "state",
           "parent", "blockedBy", "blocks"}
\* The fields the batched edit carries
EditFields == {"title", "body", "milestone", "labels", "assignees"}

\* issue.EqualIgnoringSyncedAt
EqualIgnoringSyncedAt(a, b) ==
  /\ a.number = b.number
  /\ \A f \in Fields : a[f] = b[f]

\* issue.EqualForConflictCheck: as EqualIgnoringSyncedAt without the
\* informational blocks relation, which the remote derives from blocked_by.
EqualForConflictCheck(a, b) ==
  /\ a.number = b.number
  /\ \A f \in Fields \ {"blocks"} : a[f] = b[f]

\* Labels and milestones, in the order sort.Strings gives each kind
LabelSeq == <<"bug", "ui">>
MilestoneSeq == <<"v1", "v2">>
Labels == {LabelSeq[i] : i \in 1..Len(LabelSeq)}
Milestones == {MilestoneSeq[i] : i \in 1..Len(MilestoneSeq)}

\* The state of a process that runs no Push
NoPush ==
  [phase |-> "off", force |-> FALSE, dryRun |-> FALSE, items |-> <<>>,
   known |-> {}, missing |-> <<>>, toPost |-> <<>>,
   mapping |-> [t \in LocalIds |-> ""], pending |-> <<>>,
   fetched |-> [n \in Numbers |-> NoRecord], conflicts |-> <<>>,
   unchanged |-> 0, batch |-> <<>>, works |-> <<>>, i |-> 0,
   ret |-> "none", reported |-> {}, would |-> <<>>, start |-> NoRecord]

\* An empty store that no Push works on
InitNoStore ==
  /\ files = <<>>
  /\ originals = [n \in Numbers |-> NoRecord]
  /\ remote = [n \in Numbers |-> NoRecord]
  /\ push = [p \in Procs |-> NoPush]
  /\ log = <<>>
  /\ vocab = {}
  /\ cache = {}
  /\ comments = [pending |-> {}, posted |-> {}]
  /\ sent = {}
  /\ arg = NoRecord
  /\ out = NoRecord

(***************************************************************************)
(* lock.isProcessAlive                                                     *)
(***************************************************************************)
\* Mutant: the liveness probe reports every recorded pid as alive.
isProcessAlive_Always(pid) == TRUE

isProcessAlive(pid) ==
  IF pid \in Procs THEN alive[pid] ELSE FALSE

\* json.Unmarshal(data, &info) succeeds
Parses(m) == m.kind = "info"

InitLock ==
  /\ marker \in {NoMarker, GarbageMarker, InfoMarker(StalePid)}
  /\ alive = [p \in Procs |-> TRUE]
  /\ pc = [p \in Procs |-> "idle"]
  /\ info = [p \in Procs |-> NoPid]
  /\ deadline = [p \in Procs |-> 0]
  /\ wake = [p \in Procs |-> 0]
  /\ holding = [p \in Procs |-> FALSE]
  /\ released = [p \in Procs |-> FALSE]
  /\ relOf = [p \in Procs |-> "none"]
  /\ result = [p \in Procs |-> "none"]
  /\ InitNoStore

(***************************************************************************)
(* lock.Acquire: entry (MkdirAll, lockPath, deadline)                      *)
(***************************************************************************)
Acquire(p, timeout) ==
  /\ alive[p] /\ pc[p] = "idle" /\ ~holding[p]
  /\ deadline' = [deadline EXCEPT ![p] = timeout]
  /\ result' = [result EXCEPT ![p] = "none"]
  /\ pc' = [pc EXCEPT ![p] = "try_read"]
  /\ UNCHANGED <<marker, alive, info, wake, holding, released, relOf>>

(***************************************************************************)
(* lock.tryAcquire                                                         *)
(***************************************************************************)
\* os.ReadFile(lockPath) and json.Unmarshal
TryRead(p) ==
  /\ alive[p] /\ pc[p] = "try_read"
  /\ IF marker = NoMarker
       THEN /\ pc' = [pc EXCEPT ![p] = "try_create"]
            /\ UNCHANGED info
       ELSE IF Parses(marker)
         THEN /\ info' = [info EXCEPT ![p] = marker.pid]
              /\ pc' = [pc EXCEPT ![p] = "try_probe"]
         ELSE /\ pc' = [pc EXCEPT ![p] = "try_remove"]
              /\ UNCHANGED info
  /\ UNCHANGED <<marker, alive, deadline, wake, holding, released,
                 relOf, result>>

\* isProcessAlive(info.PID): alive -> return false, nil
TryProbe(p) ==
  /\ alive[p] /\ pc[p] = "try_probe"
  /\ IF isProcessAlive(info[p])
       THEN /\ pc' = [pc EXCEPT ![p] = "deadline"]
            /\ info' = [info EXCEPT ![p] = NoPid]
       ELSE /\ pc' = [pc EXCEPT ![p] = "try_remove"]
            /\ UNCHANGED info
  /\ UNCHANGED <<marker, alive, deadline, wake, holding,
                 released, relOf, result>>

\* os.Remove(lockPath) of a stale or corrupted marker (its error is ignored)
TryRemove(p) ==
  /\ alive[p] /\ pc[p] = "try_remove"
  /\ marker' = NoMarker
  /\ pc' = [pc EXCEPT ![p] = "try_create"]
  /\ UNCHANGED <<alive, info, deadline, wake, holding,
                 released, relOf, result>>

\* os.OpenFile(lockPath, O_CREATE|O_EXCL|O_WRONLY)
TryCreate(p) ==
  /\ alive[p] /\ pc[p] = "try_create"
  /\ IF marker = NoMarker
       THEN /\ marker' = EmptyMarker(p)
            /\ pc' = [pc EXCEPT ![p] = "try_write"]
            /\ UNCHANGED info
       ELSE /\ pc' = [pc EXCEPT ![p] = "deadline"]
            /\ info' = [info EXCEPT ![p] = NoPid]
            /\ UNCHANGED marker
  /\ UNCHANGED <<alive, deadline, wake, holding,
                 released, relOf, result>>

\* f.Write(data) on the descriptor opened by TryCreate; tryAcquire returns
\* true and Acquire returns the Lock.  The write reaches lock.json only if
\* the path still names the file this process created.
TryWrite(p) ==
  /\ alive[p] /\ pc[p] = "try_write"
  /\ marker' = IF marker = EmptyMarker(p) THEN InfoMarker(p) ELSE marker
  /\ holding' = [holding EXCEPT ![p] = TRUE]
  /\ result' = [result EXCEPT ![p] = "ok"]
  /\ pc' = [pc EXCEPT ![p] = "idle"]
  /\ deadline' = [deadline EXCEPT ![p] = 0]
  /\ info' = [info EXCEPT ![p] = NoPid]
  /\ UNCHANGED <<alive, wake, released, relOf>>

(***************************************************************************)
(* lock.Acquire: the polling loop                                          *)
(***************************************************************************)
\* Mutant: the deadline is never seen as passed.
TimedOut_Never(p) == FALSE

\* time.Now().After(deadline)
TimedOut(p) == deadline[p] < 0

CheckDeadline(p) ==
  /\ alive[p] /\ pc[p] = "deadline"
  /\ IF TimedOut(p)
       THEN /\ result' = [result EXCEPT ![p] = "err"]
            /\ pc' = [pc EXCEPT ![p] = "idle"]
            /\ deadline' = [deadline EXCEPT ![p] = 0]
            /\ UNCHANGED wake
       ELSE /\ wake' = [wake EXCEPT ![p] = 1]
            /\ pc' = [pc EXCEPT ![p] = "sleep"]
            /\ UNCHANGED <<result, deadline>>
  /\ UNCHANGED <<marker, alive, info, holding, released, relOf>>

\* time.Sleep(PollInterval) returns
Wake(p) ==
  /\ alive[p] /\ pc[p] = "sleep"
  /\ wake[p] = 0
  /\ pc' = [pc EXCEPT ![p] = "try_read"]
  /\ UNCHANGED <<wake, marker, alive, info, deadline, holding,
                 released, relOf, result>>

(***************************************************************************)
(* Lock.Release                                                            *)
(***************************************************************************)
\* Bookkeeping when Release returns: a live handle becomes a released one.
Returned(p, outcome) ==
  /\ result' = [result EXCEPT ![p] = outcome]
  /\ pc' = [pc EXCEPT ![p] = "idle"]
  /\ holding' = [holding EXCEPT ![p] = IF relOf[p] = "live" THEN FALSE ELSE @]
  /\ released' = [released EXCEPT ![p] = IF relOf[p] = "live" THEN TRUE ELSE @]
  /\ relOf' = [relOf EXCEPT ![p] = "none"]

\* l == nil || l.path == ""
ReleaseNil(p) ==
  /\ alive[p] /\ pc[p] = "idle"
  /\ result' = [result EXCEPT ![p] = "ok"]
  /\ UNCHANGED <<marker, alive, pc, info, deadline, wake,
                 holding, released, relOf>>

\* Release called on a handle returned by Acquire: "live" is the handle of
\* the current successful Acquire, "released" one that was released before.
Release(p, handle) ==
  /\ alive[p] /\ pc[p] = "idle"
  /\ \/ handle = "live" /\ holding[p]
     \/ handle = "released" /\ released[p]
  /\ relOf' = [relOf EXCEPT ![p] = handle]
  /\ result' = [result EXCEPT ![p] = "none"]
  /\ pc' = [pc EXCEPT ![p] = "rel_read"]
  /\ UNCHANGED <<marker, alive, info, deadline, wake,
                 holding, released>>

\* os.ReadFile(l.path), json.Unmarshal, info.PID != os.Getpid()
RelRead(p) ==
  /\ alive[p] /\ pc[p] = "rel_read"
  /\ IF marker = NoMarker \/ (Parses(marker) /\ marker.pid # p)
       THEN Returned(p, "ok")
       ELSE /\ pc' = [pc EXCEPT ![p] = "rel_remove"]
            /\ UNCHANGED <<holding, released, result, relOf>>
  /\ UNCHANGED <<marker, alive, info, deadline, wake>>

\* return os.Remove(l.path)
RelRemove(p) ==
  /\ alive[p] /\ pc[p] = "rel_remove"
  /\ marker' = NoMarker
  /\ Returned(p, IF marker = NoMarker THEN "err" ELSE "ok")
  /\ UNCHANGED <<alive, info, deadline, wake>>

(***************************************************************************)
(* Environment                                                             *)
(***************************************************************************)
\* The process dies (crash, kill): no step of it follows, nothing is cleaned.
Crash(p) ==
  /\ alive[p]
  /\ alive' = [alive EXCEPT ![p] = FALSE]
  /\ pc' = [pc EXCEPT ![p] = "dead"]
  /\ info' = [info EXCEPT ![p] = NoPid]
  /\ deadline' = [deadline EXCEPT ![p] = 0]
  /\ wake' = [wake EXCEPT ![p] = 0]
  /\ holding' = [holding EXCEPT ![p] = FALSE]
  /\ released' = [released EXCEPT ![p] = FALSE]
  /\ relOf' = [relOf EXCEPT ![p] = "none"]
  /\ result' = [result EXCEPT ![p] = "none"]
  /\ UNCHANGED <<marker>>

InAcquire(p) ==
  pc[p] \in {"try_read", "try_probe", "try_remove", "try_create", "try_write",
             "deadline", "sleep"}

\* One poll interval passes: every deadline comes one tick nearer and every
\* sleeper has slept one tick more.  The clock is read only inside Acquire.
Tick ==
  /\ \E p \in Procs : InAcquire(p) /\ (deadline[p] >= 0 \/ wake[p] > 0)
  /\ deadline' = [p \in Procs |->
                    IF InAcquire(p) /\ deadline[p] >= 0
                      THEN deadline[p] - 1 ELSE deadline[p]]
  /\ wake' = [p \in Procs |-> IF wake[p] > 0 THEN wake[p] - 1 ELSE 0]
  /\ UNCHANGED <<marker, alive, pc, info, holding, released,
                 relOf, result>>

\* The steps inside a running Acquire or Release
LockStep(p) ==
  \/ TryRead(p)
  \/ TryProbe(p)
  \/ TryRemove(p)
  \/ TryCreate(p)
  \/ TryWrite(p)
  \/ CheckDeadline(p)
  \/ Wake(p)
  \/ RelRead(p)
  \/ RelRemove(p)

\* The lock package alone: clients call Acquire and Release, no Push runs.
NextLock ==
  /\ \/ \E p \in Procs, t \in Timeouts : Acquire(p, t)
     \/ \E p \in Procs : ReleaseNil(p)
     \/ \E p \in Procs, h \in {"live", "released"} : Release(p, h)
     \/ \E p \in Procs : LockStep(p)
     \/ \E p \in Procs : Crash(p)
     \/ Tick
  /\ UNCHANGED pushVars

SpecLock == InitLock /\ [][NextLock]_vars

\* Every running process is scheduled and the clock advances.
SpecLockFair ==
  /\ SpecLock
  /\ WF_vars(Tick /\ UNCHANGED pushVars)
  /\ \A p \in Procs : WF_vars(LockStep(p) /\ UNCHANGED pushVars)

(***************************************************************************)
(* Properties of the process lock                                          *)
(***************************************************************************)
Holders == {p \in Procs : alive[p] /\ holding[p]}

\* C1: at most one running process at a time has a successful, not yet
\* released Acquire, under every interleaving of Acquire and Release.
C1_MutualExclusion == Cardinality(Holders) <= 1

\* C2: a marker left by a process that is no longer alive (or one that
\* cannot be parsed) never blocks a later Acquire: once every other process
\* is dead, an Acquire that starts an attempt ends up holding the lock.
C2_StaleRecovery ==
  \A q \in Procs :
    (pc[q] = "try_read" /\ \A r \in Procs \ {q} : ~alive[r])
      ~> (holding[q] \/ ~alive[q])

\* q read the marker of a holder that died without releasing, deleted it
\* and created its own.
C2_Witness ==
  \E q \in Procs :
    /\ pc[q] = "try_write" /\ marker = EmptyMarker(q)
    /\ info[q] \in Procs /\ ~alive[info[q]]

\* C3: while a live holder keeps the lock no other Acquire succeeds, and a
\* timeout error is returned only once the timeout has elapsed.
C3_BlocksWhileHeld ==
  [][\A p, q \in Procs :
       /\ (p # q /\ alive[p] /\ holding[p] /\ alive'[p] /\ holding'[p])
            => ~(~holding[q] /\ holding'[q])
       /\ (InAcquire(q) /\ pc'[q] = "idle" /\ result'[q] = "err")
            => TimedOut(q)]_vars

\* C4: every call of Acquire returns, holding the lock or with the timeout
\* error, whatever the other processes do with the marker.
C4_AcquireTerminates ==
  \A p \in Procs :
    InAcquire(p)
      ~> (\/ ~alive[p]
          \/ pc[p] = "idle" /\ result[p] \in {"ok", "err"})

\* An Acquire that polled and gave up, and one that succeeded.
C4_Witness ==
  \E p, q \in Procs :
    /\ pc[p] = "idle" /\ result[p] = "err" /\ ~holding[p] /\ ~released[p]
    /\ pc[q] = "idle" /\ result[q] = "ok" /\ holding[q]

\* C5: the marker that Release deletes names the releasing process as its
\* owner.
C5_ReleaseOnlyOwnMarker ==
  [][\A p \in Procs :
       (pc[p] = "rel_remove" /\ pc'[p] = "idle" /\ marker # NoMarker)
         => marker = InfoMarker(p)]_vars

\* C6: Release of a nil handle or of a handle that was already released
\* returns no error.
C6_ReleaseAgainNoError ==
  [][\A p \in Procs :
       /\ (pc[p] = "idle" /\ pc'[p] = "idle" /\ result'[p] # result[p]
             /\ alive'[p])
            => result'[p] = "ok"
       /\ (relOf[p] = "released" /\ pc'[p] = "idle")
            => result'[p] # "err"]_vars

(***************************************************************************)
(* App.Push: helpers.  The run goes through the phases                     *)
(*   ready -> locking -> (dryrun | vocab -> create -> remap ->             *)
(*   synccreated -> pending -> detect -> batch -> post -> comments ->      *)
(*   finish) -> release -> releasing -> done                               *)
(* Issue types and projects are not part of this model; the remote         *)
(* tracker changes only through the calls of Push.                         *)
(***************************************************************************)
\* lock.DefaultTimeout (15s), counted in poll intervals and scaled down
DefaultTimeout == MaxTimeout

\* A store access or remote call of process p; ok: the call succeeded
Event(p, op, n, ok) == [proc |-> p, op |-> op, num |-> n, ok |-> ok]

\* The members of a set of indices in increasing order (a range loop that
\* collects the elements passing a test)
Ascending(S) ==
  CHOOSE seq \in [1..Cardinality(S) -> S] :
    \A i, j \in 1..Cardinality(S) : i < j => seq[i] < seq[j]

\* readOriginalIssue: the snapshot and whether there is a readable one
readOriginalIssue(n) ==
  [original |-> originals[n], hasOriginal |-> originals[n] # NoRecord]

\* Mutant: a record without an Original Snapshot counts as unchanged.
localChanged_NeedsOriginal(iss) ==
  LET o == readOriginalIssue(iss.number)
  IN  o.hasOriginal /\ ~EqualIgnoringSyncedAt(iss, o.original)

\* localChanged := !hasOriginal || !issue.EqualIgnoringSyncedAt(local, original)
localChanged(iss) ==
  LET o == readOriginalIssue(iss.number)
  IN  ~o.hasOriginal \/ ~EqualIgnoringSyncedAt(iss, o.original)

\* The characters of an identifier
IdChars(id) ==
  CASE id = "T1" -> <<"T", "1">>
    [] id = "T2" -> <<"T", "2">>
    [] id = "T10" -> <<"T", "1", "0">>
    [] id = "1" -> <<"1">>
    [] id = "2" -> <<"2">>
    [] id = "3" -> <<"3">>

\* A character that can be part of an identifier (a word character)
IsWordChar(c) == c \notin {"#", " "}

\* The longest prefix of text made of word characters
RECURSIVE Word(_)
Word(text) ==
  IF text = <<>> \/ ~IsWordChar(Head(text))
    THEN <<>>
    ELSE <<Head(text)>> \o Word(Tail(text))

\* The provisional identifiers a mapping has a number for
Mapped(mapping) == {t \in DOMAIN mapping : mapping[t] # ""}

\* Mutant: "#" followed by a mapped identifier is replaced wherever it
\* occurs, whatever comes after it.
RECURSIVE ReplaceRefs_Prefix(_, _)
ReplaceRefs_Prefix(text, mapping) ==
  IF text = <<>> THEN <<>>
  ELSE IF Head(text) # "#"
    THEN <<Head(text)>> \o ReplaceRefs_Prefix(Tail(text), mapping)
  ELSE LET hits == {t \in Mapped(mapping) :
                      /\ Len(IdChars(t)) < Len(text)
                      /\ SubSeq(text, 2, Len(IdChars(t)) + 1) = IdChars(t)}
       IN  IF hits = {}
             THEN <<"#">> \o ReplaceRefs_Prefix(Tail(text), mapping)
             ELSE LET t == CHOOSE h \in hits :
                             \A g \in hits : Len(IdChars(g)) <= Len(IdChars(h))
                  IN  <<"#">> \o IdChars(mapping[t])
                        \o ReplaceRefs_Prefix(
                             SubSeq(text, Len(IdChars(t)) + 2, Len(text)), mapping)

\* The reference tokens of a text: "#" and the whole word after it.  A token
\* whose word is a mapped identifier gets the number the tracker assigned.
RECURSIVE ReplaceRefs(_, _)
ReplaceRefs(text, mapping) ==
  IF text = <<>> THEN <<>>
  ELSE IF Head(text) # "#"
    THEN <<Head(text)>> \o ReplaceRefs(Tail(text), mapping)
  ELSE LET word == Word(Tail(text))
           rest == SubSeq(text, Len(word) + 2, Len(text))
           hits == {t \in Mapped(mapping) : IdChars(t) = word}
       IN  <<"#">>
             \o (IF hits = {} THEN word
                              ELSE IdChars(mapping[CHOOSE t \in hits : TRUE]))
             \o ReplaceRefs(rest, mapping)

\* A reference to a mapped provisional identifier becomes the number the
\* tracker assigned.
MapRef(ref, mapping) ==
  IF ref \in Mapped(mapping) THEN mapping[ref] ELSE ref

\* Mutant: the blocks relation is not remapped.
applyMapping_NoBlocks(iss, mapping) ==
  LET mapped == [iss EXCEPT !.title = ReplaceRefs(@, mapping),
                            !.body = ReplaceRefs(@, mapping),
                            !.parent = MapRef(@, mapping),
                            !.blockedBy = {MapRef(b, mapping) : b \in @}]
  IN  [issue |-> mapped,
       changed |-> \/ mapped.title # iss.title \/ mapped.body # iss.body
                   \/ iss.parent \in Mapped(mapping)
                   \/ iss.blockedBy \cap Mapped(mapping) # {}]

\* applyMapping(&issue, mapping): the parent, the members of blocked-by and
\* blocks and the reference tokens of title and body are remapped; changed
\* reports whether anything was.
applyMapping(iss, mapping) ==
  LET mapped == [iss EXCEPT !.title = ReplaceRefs(@, mapping),
                            !.body = ReplaceRefs(@, mapping),
                            !.parent = MapRef(@, mapping),
                            !.blockedBy = {MapRef(b, mapping) : b \in @},
                            !.blocks = {MapRef(b, mapping) : b \in @}]
  IN  [issue |-> mapped,
       changed |-> \/ mapped.title # iss.title \/ mapped.body # iss.body
                   \/ iss.parent \in Mapped(mapping)
                   \/ iss.blockedBy \cap Mapped(mapping) # {}
                   \/ iss.blocks \cap Mapped(mapping) # {}]

\* diffIssue(baseline, local): the edited fields and the state transition
diffIssue(baseline, local) ==
  [edits |-> {f \in EditFields : baseline[f] # local[f]},
   transition |-> IF baseline.state = local.state THEN "none"
                  ELSE IF local.state = "closed" THEN "close" ELSE "reopen"]

hasEdits(change) == change.edits # {}

\* Mutant: a record is never taken for a conflict.
IsConflict_Never(force, pu, rem, local) == FALSE

\* The record is skipped as a conflict: the remote changed since the last
\* sync and the local version is not that same change.
IsConflict(force, pu, rem, local) ==
  /\ ~force /\ pu.hasOriginal /\ ~EqualForConflictCheck(rem, pu.original)
  /\ ~EqualForConflictCheck(rem, local)

\* Mutant: the local version is never taken for the change the remote saw.
IsSameChange_Never(force, pu, rem, local) == FALSE

\* The remote changed since the last sync to exactly the local version.
IsSameChange(force, pu, rem, local) ==
  /\ ~force /\ pu.hasOriginal /\ ~EqualForConflictCheck(rem, pu.original)
  /\ EqualForConflictCheck(rem, local)

\* The number the tracker gives the next created issue
Fresh(rem) ==
  NumberSeq[CHOOSE k \in 1..Len(NumberSeq) :
              /\ \A j \in k..Len(NumberSeq) : rem[NumberSeq[j]] = NoRecord
              /\ k = 1 \/ rem[NumberSeq[k-1]] # NoRecord]

\* client.CreateIssue: title, body, labels, assignees and milestone are
\* sent; the new issue is open and has no relationships.
CreatedRemote(iss, n) ==
  [number |-> n, title |-> iss.title, body |-> iss.body,
   milestone |-> iss.milestone, labels |-> iss.labels,
   assignees |-> iss.assignees, state |-> "open", parent |-> "",
   blockedBy |-> {}, blocks |-> {}, synced |-> "none"]

\* client.SyncRelationships(number, local) on the remote issue rem: the
\* parent and the blocked-by and blocks relations are made equal to the
\* local ones, provisional members left out; a provisional parent is
\* rejected (GetIssueNodeID: strconv.Atoi).
SyncRelationships(rem, local) ==
  IF local.parent # rem.parent /\ IsLocal(local.parent)
    THEN rem
    ELSE [rem EXCEPT !.parent = local.parent,
                     !.blockedBy = {b \in local.blockedBy : ~IsLocal(b)},
                     !.blocks = {b \in local.blocks : ~IsLocal(b)}]

\* Mutant: the provisional members of blocked-by and blocks are not left out.
RelationshipRefs_Unfiltered(number, rem, local) ==
  IF local.parent # rem.parent /\ IsLocal(local.parent)
    THEN {number}
    ELSE {number}
           \cup (IF local.parent # rem.parent THEN {local.parent} \ {""} ELSE {})
           \cup ((local.blockedBy \ rem.blockedBy) \cup (rem.blockedBy \ local.blockedBy))
           \cup ((local.blocks \ rem.blocks) \cup (rem.blocks \ local.blocks))

\* The issue numbers in the requests of client.SyncRelationships(number,
\* local): GetIssueRelationships(number); SetParent when the parents differ,
\* where GetIssueNodeID returns an error before any request if the parent
\* is not a decimal number and SyncRelationships returns with it; then
\* AddBlockedBy / RemoveBlockedBy for the differences of blocked-by and of
\* blocks, taken over the local members that pass !ref.IsLocal().  A call
\* that fails on the way issues a part of these requests.
RelationshipRefs(number, rem, local) ==
  IF local.parent # rem.parent /\ IsLocal(local.parent)
    THEN {number}
    ELSE LET localBlockedBy == {b \in local.blockedBy : ~IsLocal(b)}
             localBlocks == {b \in local.blocks : ~IsLocal(b)}
         IN  {number}
               \cup (IF local.parent # rem.parent THEN {local.parent} \ {""} ELSE {})
               \cup ((localBlockedBy \ rem.blockedBy) \cup (rem.blockedBy \ localBlockedBy))
               \cup ((localBlocks \ rem.blocks) \cup (rem.blocks \ localBlocks))

\* client.BatchEditIssues applied to one issue: the fields named by the
\* update take the values the update carries.
ApplyUpdate(rem, update) ==
  [rem EXCEPT !.title = IF "title" \in update.edits THEN update.issue.title ELSE @,
              !.body = IF "body" \in update.edits THEN update.issue.body ELSE @,
              !.milestone = IF "milestone" \in update.edits
                              THEN update.issue.milestone ELSE @,
              !.labels = IF "labels" \in update.edits THEN update.issue.labels ELSE @,
              !.assignees = IF "assignees" \in update.edits
                              THEN update.issue.assignees ELSE @]

\* Mutant: an early return leaves Push without the deferred Release.
Abort_NoRelease(p) ==
  push' = [push EXCEPT ![p].phase = "done", ![p].ret = "err"]

\* return err inside the locked region: the deferred lck.Release() runs
Abort(p) ==
  push' = [push EXCEPT ![p].phase = "release", ![p].ret = "err"]

(***************************************************************************)
(* App.Push: the steps                                                     *)
(***************************************************************************)
\* Push is called: lock.Acquire(p.SyncDir, lock.DefaultTimeout)
PushStart(p, force, dryRun) ==
  /\ push[p].phase = "ready"
  /\ Acquire(p, DefaultTimeout)
  /\ push' = [push EXCEPT ![p] =
                [NoPush EXCEPT !.phase = "locking", !.force = force,
                               !.dryRun = dryRun,
                               !.start = [files |-> files,
                                          originals |-> originals,
                                          remote |-> remote,
                                          vocab |-> vocab,
                                          cache |-> cache,
                                          comments |-> comments]]]
  /\ UNCHANGED <<files, originals, remote, log>>
  /\ UNCHANGED sideVars

\* Mutant: the error of Acquire is dropped and Push goes on without the lock.
PushLockFailed_GoesOn(p) ==
  /\ push[p].phase = "locking" /\ pc[p] = "idle" /\ result[p] = "err"
  /\ push' = [push EXCEPT ![p].phase = "create",
                          ![p].items = [k \in 1..Len(files) |->
                                          [slot |-> k, issue |-> files[k]]]]
  /\ log' = Append(log, Event(p, "load", "all", TRUE))
  /\ UNCHANGED <<lockVars, files, originals, remote>>
  /\ UNCHANGED sideVars

\* Acquire returned the timeout error: return err
PushLockFailed(p) ==
  /\ push[p].phase = "locking" /\ pc[p] = "idle" /\ result[p] = "err"
  /\ push' = [push EXCEPT ![p].phase = "done", ![p].ret = "lock"]
  /\ UNCHANGED <<lockVars, files, originals, remote, log>>
  /\ UNCHANGED sideVars

\* The labels and the milestone the records carry
Needed(recs) ==
  UNION {recs[k].labels \cup ({recs[k].milestone} \ {""}) : k \in 1..Len(recs)}

\* missingLabels, then missingMilestones, each sorted
Missing(needed, known) ==
  SelectSeq(LabelSeq \o MilestoneSeq, LAMBDA v : v \in needed \ known)

\* Identifiers in the order of their strings (sort.Slice over commentsToPost)
IdSeq == <<"1", "2", "3", "T1", "T10", "T2">>

\* Mutant: the dry-run option is not looked at.
PushLoad_IgnoresDryRun(p) ==
  /\ push[p].phase = "locking" /\ pc[p] = "idle" /\ result[p] = "ok"
  /\ LET known == cache
     IN  push' = [push EXCEPT
                    ![p].phase = "vocab",
                    ![p].known = known,
                    ![p].missing = Missing(Needed(files), known),
                    ![p].toPost = SelectSeq(IdSeq, LAMBDA n : n \in comments.pending),
                    ![p].items = [k \in 1..Len(files) |->
                                    [slot |-> k, issue |-> files[k]]]]
  /\ log' = Append(log, Event(p, "load", "all", TRUE))
  /\ UNCHANGED <<lockVars, files, originals, remote>>
  /\ UNCHANGED sideVars

\* Acquire returned the lock: the caches are loaded, or the vocabulary is
\* fetched where there is no cache (ListMilestones may fail: no milestone is
\* known then); loadLocalIssues, filterIssuesByArgs; the missing labels and
\* milestones and the comments to post are collected.
PushLoad(p) ==
  /\ push[p].phase = "locking" /\ pc[p] = "idle" /\ result[p] = "ok"
  /\ \E listed \in (IF cache \cap Milestones = {} /\ vocab \cap Milestones # {}
                      THEN BOOLEAN ELSE {TRUE}) :
       LET labelColors == IF cache \cap Labels = {} THEN vocab \cap Labels
                                                    ELSE cache \cap Labels
           knownMilestones == IF cache \cap Milestones # {}
                                THEN cache \cap Milestones
                                ELSE IF listed THEN vocab \cap Milestones ELSE {}
           known == labelColors \cup knownMilestones
       IN  push' = [push EXCEPT
                      ![p].phase = IF push[p].dryRun THEN "dryrun" ELSE "vocab",
                      ![p].known = known,
                      ![p].missing = Missing(Needed(files), known),
                      ![p].toPost = SelectSeq(IdSeq, LAMBDA n : n \in comments.pending),
                      ![p].items = [k \in 1..Len(files) |->
                                      [slot |-> k, issue |-> files[k]]]]
  /\ log' = Append(log, Event(p, "load", "all", TRUE))
  /\ UNCHANGED <<lockVars, files, originals, remote>>
  /\ UNCHANGED sideVars

\* The records a dry run reports as "Would create issue": newIssues
WouldCreate(recs) ==
  Ascending({k \in 1..Len(recs) : IsLocal(recs[k].number)})

\* The records a dry run reports as "Would push issue": not provisional and
\* without an Original Snapshot or different from it
WouldPush(recs, origs) ==
  Ascending({k \in 1..Len(recs) :
               /\ ~IsLocal(recs[k].number)
               /\ \/ origs[recs[k].number] = NoRecord
                  \/ ~EqualIgnoringSyncedAt(recs[k], origs[recs[k].number])})

\* opts.DryRun: report what a real run would create and push, return nil
PushDryRun(p) ==
  /\ push[p].phase = "dryrun"
  /\ LET items == push[p].items
         recs == [k \in 1..Len(items) |-> items[k].issue]
         isNew(k) == IsLocal(items[k].issue.number)
         isSame(k) == ~isNew(k) /\ ~localChanged(items[k].issue)
         news == WouldCreate(recs)
         changed == WouldPush(recs, originals)
     IN  push' = [push EXCEPT
                    ![p].would =
                       [k \in 1..Len(push[p].missing) |->
                          [kind |-> "vocab", slot |-> 0, id |-> push[p].missing[k]]]
                       \o [k \in 1..Len(news) |->
                          [kind |-> "create", slot |-> items[news[k]].slot,
                           id |-> items[news[k]].issue.title]]
                       \o [k \in 1..Len(changed) |->
                          [kind |-> "push", slot |-> items[changed[k]].slot,
                           id |-> items[changed[k]].issue.number]]
                       \o [k \in 1..Len(push[p].toPost) |->
                          [kind |-> "comment", slot |-> 0, id |-> push[p].toPost[k]]],
                    ![p].unchanged = Len(Ascending({k \in 1..Len(items) : isSame(k)})),
                    ![p].ret = "ok",
                    ![p].phase = "release"]
  /\ UNCHANGED <<lockVars, files, originals, remote, log>>
  /\ UNCHANGED sideVars

\* Create missing labels, create missing milestones (a failure is a
\* warning), save the caches that were updated
PushVocab(p) ==
  /\ push[p].phase = "vocab"
  /\ LET missing == push[p].missing
         names == {missing[k] : k \in 1..Len(missing)}
     IN  \E created \in SUBSET (names \ vocab) :
           LET known == push[p].known \cup created
           IN  /\ vocab' = vocab \cup created
               /\ cache' = (IF created \cap Labels # {}
                              THEN known \cap Labels ELSE cache \cap Labels)
                           \cup (IF created \cap Milestones # {}
                                   THEN known \cap Milestones
                                   ELSE cache \cap Milestones)
               /\ push' = [push EXCEPT ![p].known = known, ![p].phase = "create"]
               /\ log' = log \o [k \in 1..Len(missing) |->
                                   Event(p, "vocab", missing[k], missing[k] \in created)]
  /\ UNCHANGED <<lockVars, files, originals, remote, comments, sent>>

\* Create new issues: one provisional record per step
PushCreate(p) ==
  /\ push[p].phase = "create"
  /\ LET items == push[p].items
         isNew(k) == IsLocal(items[k].issue.number)
         news == Ascending({k \in 1..Len(items) : isNew(k)})
     IN  IF news = <<>>
           THEN /\ push' = [push EXCEPT ![p].phase = "remap"]
                /\ UNCHANGED <<files, originals, remote, log>>
           ELSE \E ok \in BOOLEAN :
                  IF ok
                    THEN LET k == news[1]
                             old == items[k].issue.number
                             n == Fresh(remote)
                             created == [items[k].issue EXCEPT !.number = n,
                                                               !.synced = "new"]
                         IN  /\ remote' = [remote EXCEPT ![n] =
                                             CreatedRemote(items[k].issue, n)]
                             /\ files' = [files EXCEPT ![items[k].slot] = created]
                             /\ originals' = [originals EXCEPT ![n] = created]
                             /\ push' = [push EXCEPT
                                           ![p].items[k].issue = created,
                                           ![p].mapping[old] = n]
                             /\ log' = log \o <<Event(p, "create", n, TRUE),
                                                Event(p, "write", n, TRUE),
                                                Event(p, "orig", n, TRUE)>>
                    ELSE /\ Abort(p)
                         /\ log' = Append(log, Event(p, "create",
                                                     items[news[1]].issue.number,
                                                     FALSE))
                         /\ UNCHANGED <<files, originals, remote>>
  /\ UNCHANGED lockVars
  /\ UNCHANGED sideVars

\* createdNumbers
Created(p) == {push[p].mapping[t] : t \in LocalIds} \ {""}

\* Mutant: every loaded issue is written back, whether applyMapping changed
\* it or not.
PushRemap_WritesAll(p) ==
  /\ push[p].phase = "remap"
  /\ IF Created(p) = {}
       THEN /\ push' = [push EXCEPT ![p].phase = "pending"]
            /\ UNCHANGED <<files, log>>
       ELSE LET applied == [k \in 1..Len(files) |->
                              applyMapping(files[k], push[p].mapping)]
                rewritten == Ascending(1..Len(files))
            IN  \E stop \in 0..Len(rewritten) :
                  LET written == {rewritten[j] : j \in 1..stop}
                      calls == IF stop < Len(rewritten) THEN stop + 1 ELSE stop
                  IN  /\ files' = [k \in 1..Len(files) |->
                                     IF k \in written THEN applied[k].issue
                                                      ELSE files[k]]
                      /\ log' = log \o [j \in 1..calls |->
                                          Event(p, "write",
                                                applied[rewritten[j]].issue.number,
                                                j <= stop)]
                      /\ IF stop = Len(rewritten)
                           THEN push' = [push EXCEPT
                                           ![p].items =
                                              [k \in 1..Len(files) |->
                                                 [slot |-> k,
                                                  issue |-> applied[k].issue]],
                                           ![p].phase = "synccreated"]
                           ELSE Abort(p)
  /\ UNCHANGED <<lockVars, originals, remote>>
  /\ UNCHANGED sideVars

\* Update references in all issues: loadLocalIssues, then for each issue in
\* turn applyMapping and, if it changed, WriteFile.  The first WriteFile that
\* fails ends Push; the files written before it stay written.
PushRemap(p) ==
  /\ push[p].phase = "remap"
  /\ IF Created(p) = {}
       THEN /\ push' = [push EXCEPT ![p].phase = "pending"]
            /\ UNCHANGED <<files, log>>
       ELSE LET applied == [k \in 1..Len(files) |->
                              applyMapping(files[k], push[p].mapping)]
                rewritten == Ascending({k \in 1..Len(files) : applied[k].changed})
            IN  \E stop \in 0..Len(rewritten) :
                  LET written == {rewritten[j] : j \in 1..stop}
                      calls == IF stop < Len(rewritten) THEN stop + 1 ELSE stop
                  IN  /\ files' = [k \in 1..Len(files) |->
                                     IF k \in written THEN applied[k].issue
                                                      ELSE files[k]]
                      /\ log' = log \o [j \in 1..calls |->
                                          Event(p, "write",
                                                applied[rewritten[j]].issue.number,
                                                j <= stop)]
                      /\ IF stop = Len(rewritten)
                           THEN push' = [push EXCEPT
                                           ![p].items =
                                              [k \in 1..Len(files) |->
                                                 [slot |-> k,
                                                  issue |-> applied[k].issue]],
                                           ![p].phase = "synccreated"]
                           ELSE Abort(p)
  /\ UNCHANGED <<lockVars, originals, remote>>
  /\ UNCHANGED sideVars

\* Sync relationships for newly created issues (a failure is a warning)
PushSyncCreated(p) ==
  /\ push[p].phase = "synccreated"
  /\ LET items == push[p].items
         isCreated(k) == items[k].issue.number \in Created(p)
         made == Ascending({k \in 1..Len(items) : isCreated(k)})
     IN  \E oks \in [Created(p) -> BOOLEAN] :
           /\ remote' = [n \in Numbers |->
                           IF n \in Created(p) /\ oks[n]
                             THEN LET k == CHOOSE j \in 1..Len(items) :
                                              items[j].issue.number = n
                                  IN  SyncRelationships(remote[n], items[k].issue)
                             ELSE remote[n]]
           /\ log' = log \o [k \in 1..Len(made) |->
                               Event(p, "rel", items[made[k]].issue.number,
                                     oks[items[made[k]].issue.number])]
           /\ sent' = sent \cup UNION {RelationshipRefs(items[k].issue.number,
                                                        remote[items[k].issue.number],
                                                        items[k].issue) :
                                         k \in {j \in 1..Len(items) : isCreated(j)}}
  /\ push' = [push EXCEPT ![p].phase = "pending"]
  /\ UNCHANGED <<lockVars, files, originals>>
  /\ UNCHANGED vocabVars

\* Count the issues that need updating and batch-fetch their remote versions
PushPending(p) ==
  /\ push[p].phase = "pending"
  /\ LET items == push[p].items
         isCandidate(k) == /\ ~IsLocal(items[k].issue.number)
                           /\ items[k].issue.number \notin Created(p)
         isPending(k) == isCandidate(k) /\ localChanged(items[k].issue)
         isSame(k) == isCandidate(k) /\ ~localChanged(items[k].issue)
         idx == Ascending({k \in 1..Len(items) : isPending(k)})
         pendingUpdates ==
           [k \in 1..Len(idx) |->
              [item |-> idx[k],
               original |-> readOriginalIssue(items[idx[k]].issue.number).original,
               hasOriginal |->
                 readOriginalIssue(items[idx[k]].issue.number).hasOriginal]]
         issueNumbersToFetch == {items[idx[k]].issue.number : k \in 1..Len(idx)}
         counted == [push EXCEPT ![p].pending = pendingUpdates,
                                 ![p].unchanged = Len(Ascending({k \in 1..Len(items) : isSame(k)})),
                                 ![p].i = 1]
     IN  /\ sent' = sent \cup issueNumbersToFetch
         /\ IF idx = <<>>
           THEN /\ push' = [counted EXCEPT ![p].phase = "detect"]
                /\ UNCHANGED log
           ELSE \E ok \in BOOLEAN :
                  IF ok
                    THEN /\ push' = [counted EXCEPT
                                       ![p].fetched =
                                          [n \in Numbers |->
                                             IF n \in issueNumbersToFetch
                                               THEN remote[n] ELSE NoRecord],
                                       ![p].phase = "detect"]
                         /\ log' = Append(log, Event(p, "fetch", "all", TRUE))
                    ELSE /\ Abort(p)
                         /\ log' = Append(log, Event(p, "fetch", "all", FALSE))
  /\ UNCHANGED <<lockVars, files, originals, remote>>
  /\ UNCHANGED vocabVars

\* The pending update the detection loop is at
Current(p) == push[p].pending[push[p].i]
CurrentIssue(p) == push[p].items[Current(p).item].issue
CurrentRemote(p) == push[p].fetched[CurrentIssue(p).number]
InDetect(p) == push[p].phase = "detect" /\ push[p].i <= Len(push[p].pending)

\* The loop over pendingUpdates is through
DetectDone(p) ==
  /\ push[p].phase = "detect" /\ push[p].i > Len(push[p].pending)
  /\ push' = [push EXCEPT ![p].phase = "batch"]
  /\ UNCHANGED <<lockVars, files, originals, remote, log>>
  /\ UNCHANGED sideVars

\* issue not found on remote: warning, next record
DetectMissing(p) ==
  /\ InDetect(p) /\ CurrentRemote(p) = NoRecord
  /\ push' = [push EXCEPT ![p].i = @ + 1]
  /\ UNCHANGED <<lockVars, files, originals, remote, log>>
  /\ UNCHANGED sideVars

\* conflicts = append(conflicts, numStr); continue
DetectConflict(p) ==
  /\ InDetect(p) /\ CurrentRemote(p) # NoRecord
  /\ IsConflict(push[p].force, Current(p), CurrentRemote(p), CurrentIssue(p))
  /\ push' = [push EXCEPT ![p].conflicts = Append(@, CurrentIssue(p).number),
                          ![p].i = @ + 1]
  /\ UNCHANGED <<lockVars, files, originals, remote, log>>
  /\ UNCHANGED sideVars

\* Local matches remote: update the original and skip
DetectSame(p) ==
  /\ InDetect(p) /\ CurrentRemote(p) # NoRecord
  /\ IsSameChange(push[p].force, Current(p), CurrentRemote(p), CurrentIssue(p))
  /\ LET n == CurrentIssue(p).number
         k == Current(p).item
         stamped == [CurrentIssue(p) EXCEPT !.synced = "new"]
     IN  /\ originals' = [originals EXCEPT ![n] = CurrentRemote(p)]
         /\ files' = [files EXCEPT ![push[p].items[k].slot] = stamped]
         /\ push' = [push EXCEPT ![p].items[k].issue = stamped,
                                 ![p].unchanged = @ + 1,
                                 ![p].i = @ + 1]
         /\ log' = log \o <<Event(p, "orig", n, TRUE), Event(p, "write", n, TRUE)>>
  /\ UNCHANGED <<lockVars, remote>>
  /\ UNCHANGED sideVars

\* Mutant: the state transition is taken against the remote version even
\* when there is an Original Snapshot.
DetectChange_RemoteBaseline(p) ==
  /\ InDetect(p) /\ CurrentRemote(p) # NoRecord
  /\ ~IsConflict(push[p].force, Current(p), CurrentRemote(p), CurrentIssue(p))
  /\ ~IsSameChange(push[p].force, Current(p), CurrentRemote(p), CurrentIssue(p))
  /\ LET pu == Current(p)
         n == CurrentIssue(p).number
         baseline == CurrentRemote(p)
         change == diffIssue(baseline, CurrentIssue(p))
         update == [number |-> n, edits |-> change.edits, issue |-> CurrentIssue(p)]
         queued == [push EXCEPT
                      ![p].batch = IF hasEdits(change) THEN Append(@, update) ELSE @,
                      ![p].works = Append(@, [item |-> pu.item,
                                              original |-> pu.original,
                                              change |-> change]),
                      ![p].i = @ + 1]
     IN  /\ sent' = IF change.transition = "none" THEN sent ELSE sent \cup {n}
         /\ IF change.transition = "none"
           THEN /\ push' = queued
                /\ UNCHANGED <<remote, log>>
           ELSE \E ok \in BOOLEAN :
                  IF ok
                    THEN /\ remote' = [remote EXCEPT ![n].state =
                                         IF change.transition = "close"
                                           THEN "closed" ELSE "open"]
                         /\ log' = Append(log, Event(p, change.transition, n, TRUE))
                         /\ push' = queued
                    ELSE /\ Abort(p)
                         /\ log' = Append(log, Event(p, change.transition, n, FALSE))
                         /\ UNCHANGED remote
  /\ UNCHANGED <<lockVars, files, originals>>
  /\ UNCHANGED vocabVars

\* diffIssue against the baseline, the state transition at once, the field
\* edits into the batch, the record into postBatchWorks
DetectChange(p) ==
  /\ InDetect(p) /\ CurrentRemote(p) # NoRecord
  /\ ~IsConflict(push[p].force, Current(p), CurrentRemote(p), CurrentIssue(p))
  /\ ~IsSameChange(push[p].force, Current(p), CurrentRemote(p), CurrentIssue(p))
  /\ LET pu == Current(p)
         n == CurrentIssue(p).number
         baseline == IF pu.hasOriginal THEN pu.original ELSE CurrentRemote(p)
         change == diffIssue(baseline, CurrentIssue(p))
         update == [number |-> n, edits |-> change.edits, issue |-> CurrentIssue(p)]
         queued == [push EXCEPT
                      ![p].batch = IF hasEdits(change) THEN Append(@, update) ELSE @,
                      ![p].works = Append(@, [item |-> pu.item,
                                              original |-> pu.original,
                                              change |-> change]),
                      ![p].i = @ + 1]
     IN  /\ sent' = IF change.transition = "none" THEN sent ELSE sent \cup {n}
         /\ IF change.transition = "none"
           THEN /\ push' = queued
                /\ UNCHANGED <<remote, log>>
           ELSE \E ok \in BOOLEAN :
                  IF ok
                    THEN /\ remote' = [remote EXCEPT ![n].state =
                                         IF change.transition = "close"
                                           THEN "closed" ELSE "open"]
                         /\ log' = Append(log, Event(p, change.transition, n, TRUE))
                         /\ push' = queued
                    ELSE /\ Abort(p)
                         /\ log' = Append(log, Event(p, change.transition, n, FALSE))
                         /\ UNCHANGED remote
  /\ UNCHANGED <<lockVars, files, originals>>
  /\ UNCHANGED vocabVars

\* client.BatchEditIssues: the call fails as a whole, or it reports an error
\* for some of the records and edits the others
PushBatch(p) ==
  /\ push[p].phase = "batch"
  /\ LET batch == push[p].batch
         numbers == {batch[k].number : k \in 1..Len(batch)}
     IN  /\ sent' = sent \cup numbers
         /\ IF batch = <<>>
           THEN /\ push' = [push EXCEPT ![p].phase = "post", ![p].i = 1]
                /\ UNCHANGED <<remote, log>>
           ELSE \/ /\ Abort(p)
                   /\ log' = log \o [k \in 1..Len(batch) |->
                                       Event(p, "edit", batch[k].number, FALSE)]
                   /\ UNCHANGED remote
                \/ \E errors \in SUBSET numbers :
                     /\ remote' =
                          [n \in Numbers |->
                             IF n \in numbers \ errors /\ remote[n] # NoRecord
                               THEN ApplyUpdate(remote[n],
                                      batch[CHOOSE k \in 1..Len(batch) :
                                              batch[k].number = n])
                               ELSE remote[n]]
                     /\ log' = log \o [k \in 1..Len(batch) |->
                                         Event(p, "edit", batch[k].number,
                                               batch[k].number \notin errors)]
                     /\ push' = [push EXCEPT ![p].phase = "post", ![p].i = 1]
  /\ UNCHANGED <<lockVars, files, originals>>
  /\ UNCHANGED vocabVars

\* Mutant: the post-batch work leaves the Original Snapshot as it was.
PushPost_KeepsSnapshot(p) ==
  /\ push[p].phase = "post"
  /\ IF push[p].i > Len(push[p].works)
       THEN /\ push' = [push EXCEPT ![p].phase = "comments"]
            /\ UNCHANGED <<files, originals, remote, log, sent>>
       ELSE LET k == push[p].works[push[p].i].item
                n == push[p].items[k].issue.number
                stamped == [push[p].items[k].issue EXCEPT !.synced = "new"]
            IN  /\ \E ok \in BOOLEAN :
                     /\ remote' = [remote EXCEPT ![n] =
                                     IF ok THEN SyncRelationships(@, push[p].items[k].issue)
                                           ELSE @]
                     /\ log' = log \o <<Event(p, "rel", n, ok),
                                        Event(p, "write", n, TRUE),
                                        Event(p, "orig", n, TRUE)>>
                /\ sent' = sent \cup RelationshipRefs(n, remote[n],
                                                      push[p].items[k].issue)
                /\ files' = [files EXCEPT ![push[p].items[k].slot] = stamped]
                /\ UNCHANGED originals
                /\ push' = [push EXCEPT ![p].items[k].issue = stamped,
                                        ![p].i = @ + 1]
  /\ UNCHANGED lockVars
  /\ UNCHANGED vocabVars

\* Post-batch work of one record: SyncRelationships (a failure is a warning),
\* then the synced timestamp, the local file and the Original Snapshot
PushPost(p) ==
  /\ push[p].phase = "post"
  /\ IF push[p].i > Len(push[p].works)
       THEN /\ push' = [push EXCEPT ![p].phase = "comments"]
            /\ UNCHANGED <<files, originals, remote, log, sent>>
       ELSE LET k == push[p].works[push[p].i].item
                n == push[p].items[k].issue.number
                stamped == [push[p].items[k].issue EXCEPT !.synced = "new"]
            IN  /\ \E ok \in BOOLEAN :
                     /\ remote' = [remote EXCEPT ![n] =
                                     IF ok THEN SyncRelationships(@, push[p].items[k].issue)
                                           ELSE @]
                     /\ log' = log \o <<Event(p, "rel", n, ok),
                                        Event(p, "write", n, TRUE),
                                        Event(p, "orig", n, TRUE)>>
                /\ sent' = sent \cup RelationshipRefs(n, remote[n],
                                                      push[p].items[k].issue)
                /\ files' = [files EXCEPT ![push[p].items[k].slot] = stamped]
                /\ originals' = [originals EXCEPT ![n] = stamped]
                /\ push' = [push EXCEPT ![p].items[k].issue = stamped,
                                        ![p].i = @ + 1]
  /\ UNCHANGED lockVars
  /\ UNCHANGED vocabVars

\* Mutant: the file of a comment is deleted whether its post succeeded or
\* not.
PushComments_DeletesAfterFailure(p) ==
  /\ push[p].phase = "comments"
  /\ LET toPost == push[p].toPost
         number(k) == IF IsLocal(toPost[k]) THEN push[p].mapping[toPost[k]]
                                            ELSE toPost[k]
         conflictSet == {push[p].conflicts[k] : k \in 1..Len(push[p].conflicts)}
         sendable == {k \in 1..Len(toPost) :
                        number(k) # "" /\ number(k) \notin conflictSet}
         posting == Ascending(sendable)
     IN  \E oks \in [sendable -> BOOLEAN] :
           /\ comments' =
                [pending |-> comments.pending
                               \ {toPost[k] : k \in sendable},
                 posted |-> comments.posted
                               \cup {number(k) : k \in {j \in sendable : oks[j]}}]
           /\ log' = log \o [j \in 1..Len(posting) |->
                               Event(p, "comment", number(posting[j]),
                                     oks[posting[j]])]
           /\ sent' = sent \cup {number(k) : k \in sendable}
  /\ push' = [push EXCEPT ![p].phase = "finish"]
  /\ UNCHANGED <<lockVars, files, originals, remote, vocab, cache>>

\* Post comments: a comment on a provisional record goes to the number the
\* record got (it is skipped when there is none), the comments on conflicting
\* records are skipped; the file of a posted comment is deleted.
PushComments(p) ==
  /\ push[p].phase = "comments"
  /\ LET toPost == push[p].toPost
         number(k) == IF IsLocal(toPost[k]) THEN push[p].mapping[toPost[k]]
                                            ELSE toPost[k]
         conflictSet == {push[p].conflicts[k] : k \in 1..Len(push[p].conflicts)}
         sendable == {k \in 1..Len(toPost) :
                        number(k) # "" /\ number(k) \notin conflictSet}
         posting == Ascending(sendable)
     IN  \E oks \in [sendable -> BOOLEAN] :
           /\ comments' =
                [pending |-> comments.pending
                               \ {toPost[k] : k \in {j \in sendable : oks[j]}},
                 posted |-> comments.posted
                               \cup {number(k) : k \in {j \in sendable : oks[j]}}]
           /\ log' = log \o [j \in 1..Len(posting) |->
                               Event(p, "comment", number(posting[j]),
                                     oks[posting[j]])]
           /\ sent' = sent \cup {number(k) : k \in sendable}
  /\ push' = [push EXCEPT ![p].phase = "finish"]
  /\ UNCHANGED <<lockVars, files, originals, remote, vocab, cache>>

\* Print final messages: the conflicts, the unchanged count; return nil
PushFinish(p) ==
  /\ push[p].phase = "finish"
  /\ push' = [push EXCEPT
                ![p].reported = {push[p].conflicts[k] :
                                   k \in 1..Len(push[p].conflicts)},
                ![p].ret = "ok",
                ![p].phase = "release"]
  /\ UNCHANGED <<lockVars, files, originals, remote, log>>
  /\ UNCHANGED sideVars

\* defer lck.Release()
PushRelease(p) ==
  /\ push[p].phase = "release"
  /\ Release(p, "live")
  /\ push' = [push EXCEPT ![p].phase = "releasing"]
  /\ UNCHANGED <<files, originals, remote, log>>
  /\ UNCHANGED sideVars

\* Release returned (its error is dropped): Push returns
PushReturn(p) ==
  /\ push[p].phase = "releasing" /\ pc[p] = "idle"
  /\ push' = [push EXCEPT ![p].phase = "done"]
  /\ UNCHANGED <<lockVars, files, originals, remote, log>>
  /\ UNCHANGED sideVars

PushStep(p) ==
  \/ PushLockFailed(p)
  \/ PushLoad(p)
  \/ PushDryRun(p)
  \/ PushVocab(p)
  \/ PushCreate(p)
  \/ PushRemap(p)
  \/ PushSyncCreated(p)
  \/ PushPending(p)
  \/ DetectDone(p)
  \/ DetectMissing(p)
  \/ DetectConflict(p)
  \/ DetectSame(p)
  \/ DetectChange(p)
  \/ PushBatch(p)
  \/ PushPost(p)
  \/ PushComments(p)
  \/ PushFinish(p)
  \/ PushRelease(p)
  \/ PushReturn(p)

(***************************************************************************)
(* The stores Push starts from                                             *)
(***************************************************************************)
\* The values a field takes: the one of the last sync and two others
AltValue ==
  [title |-> <<<<"A">>, <<"B">>, <<"C">>>>,
   body |-> <<<<"x">>, <<"y">>, <<"z">>>>,
   milestone |-> <<"", "v1", "v2">>,
   labels |-> <<{}, {"bug"}, {"bug", "ui"}>>,
   assignees |-> <<{}, {"ann"}, {"bob"}>>,
   parent |-> <<"", "2", "2">>, blockedBy |-> <<{}, {"2"}, {"2"}>>,
   blocks |-> <<{}, {"2"}, {"2"}>>]

OtherState(s) == IF s = "open" THEN "closed" ELSE "open"

\* Value number k of field f; s0 is the state at the last sync
Alt(f, k, s0) ==
  IF f = "state" THEN (IF k = 0 THEN s0 ELSE OtherState(s0))
                 ELSE AltValue[f][k + 1]

\* The record with number n whose field f has value number sel[f]
Version(n, sel, s0, synced) ==
  [number |-> n, title |-> Alt("title", sel["title"], s0),
   body |-> Alt("body", sel["body"], s0),
   milestone |-> Alt("milestone", sel["milestone"], s0),
   labels |-> Alt("labels", sel["labels"], s0),
   assignees |-> Alt("assignees", sel["assignees"], s0),
   state |-> Alt("state", sel["state"], s0),
   parent |-> Alt("parent", sel["parent"], s0),
   blockedBy |-> Alt("blockedBy", sel["blockedBy"], s0),
   blocks |-> Alt("blocks", sel["blocks"], s0), synced |-> synced]

Unedited == [f \in Fields |-> 0]

\* How a field moved since the last sync, <<local, remote>>: edited locally,
\* remotely, on both sides to the same value, on both sides differently
Moves == {<<1, 0>>, <<0, 1>>, <<1, 1>>, <<1, 2>>}

\* The number of edits, local and remote, that make up a shape
Edits(shape) ==
  Cardinality({f \in DOMAIN shape : shape[f][1] > 0})
    + Cardinality({f \in DOMAIN shape : shape[f][2] > 0})

\* The fields that move in these stores (assignees go the way of labels,
\* blocked-by the way of blocks)
ShapeFields == Fields \ {"assignees", "blockedBy"}

\* The ways a record moved by at most k edits
Shapes(k) ==
  {shape \in UNION {[D -> Moves] :
                      D \in {S \in SUBSET ShapeFields : Cardinality(S) <= k}} :
     Edits(shape) <= k}

Side(shape, side) ==
  [f \in Fields |-> IF f \in DOMAIN shape THEN shape[f][side] ELSE 0]

\* The second record of the store: unchanged, edited, closed locally, or a
\* provisional record that was never pushed
Seconds == {"same", "edit", "close", "new"}
\* The edits of an existing record that the second record stands for
Cost(second) == IF second \in {"edit", "close"} THEN 1 ELSE 0

SecondLocal(second) ==
  LET base == Version("2", Unedited, "open", "old")
  IN  CASE second = "same" -> base
        [] second = "edit" -> [base EXCEPT !.title = <<"B">>]
        [] second = "close" -> [base EXCEPT !.state = "closed"]
        [] second = "new" -> [base EXCEPT !.number = "T1", !.synced = "none"]

\* Record 1 moved as shape says; in a store with a provisional record its
\* local parent reference is that record.
InitStore(second, shape, s0, hasOriginal, found) ==
  LET local == Version("1", Side(shape, 1), s0, "old")
      local1 == IF second = "new" /\ local.parent # ""
                  THEN [local EXCEPT !.parent = "T1"] ELSE local
  IN  /\ files = <<local1, SecondLocal(second)>>
      /\ originals =
           [n \in Numbers |->
              IF n = "1" /\ hasOriginal THEN Version("1", Unedited, s0, "old")
              ELSE IF n = "2" /\ second # "new"
                THEN Version("2", Unedited, "open", "old")
              ELSE NoRecord]
      /\ remote =
           [n \in Numbers |->
              IF n = "1" /\ found THEN Version("1", Side(shape, 2), s0, "none")
              ELSE IF n = "2" THEN Version("2", Unedited, "open", "none")
              ELSE NoRecord]
      /\ log = <<>>
      /\ vocab = Labels \cup Milestones
      /\ cache = Labels \cup Milestones
      /\ comments = [pending |-> {}, posted |-> {}]
      /\ sent = {}

\* The process that runs Push; the other one is a plain client of the lock
Pusher == CHOOSE p \in Procs : \A q \in Procs : p <= q

InitIdle ==
  /\ arg = NoRecord
  /\ out = NoRecord
  /\ info = [p \in Procs |-> NoPid]
  /\ deadline = [p \in Procs |-> 0]
  /\ wake = [p \in Procs |-> 0]
  /\ holding = [p \in Procs |-> FALSE]
  /\ released = [p \in Procs |-> FALSE]
  /\ relOf = [p \in Procs |-> "none"]
  /\ result = [p \in Procs |-> "none"]
  /\ push = [p \in Procs |->
               IF p = Pusher THEN [NoPush EXCEPT !.phase = "ready"] ELSE NoPush]

\* Push runs alone on a store that saw at most MaxEdits edits, local and
\* remote (a remote deletion counts as one), since the last sync
InitSolo ==
  /\ marker = NoMarker
  /\ alive = [p \in Procs |-> p = Pusher]
  /\ pc = [p \in Procs |-> IF p = Pusher THEN "idle" ELSE "dead"]
  /\ InitIdle
  /\ \E second \in Seconds, hasOriginal \in BOOLEAN, found \in BOOLEAN :
       \E shape \in Shapes(MaxEdits - Cost(second) - (IF found THEN 0 ELSE 1)) :
         \E s0 \in (IF "state" \in DOMAIN shape THEN {"open", "closed"}
                                                ELSE {"open"}) :
           InitStore(second, shape, s0, hasOriginal, found)

\* Push runs next to a client of the lock, on a store with one edited record
InitContended ==
  /\ marker \in {NoMarker, InfoMarker(StalePid)}
  /\ alive = [p \in Procs |-> TRUE]
  /\ pc = [p \in Procs |-> "idle"]
  /\ InitIdle
  /\ InitStore("same", [f \in {"title"} |-> <<1, 0>>], "open", TRUE, TRUE)

\* The vocabulary of the offline store: complete, or only the label "bug"
OfflineVocab == {Labels \cup Milestones, {"bug"}}

\* Push runs alone on a store with work done offline: two provisional
\* records, T1 (label "ui", milestone "v1") and T2 (blocked by T1), and
\* record 1 (label "bug"), which was given the parent T1 and the body "#T1"
\* since the last sync.  The remote record 1 is as at the last sync, or its
\* title was edited; there may be no vocabulary cache; there may be pending
\* comments on record 1, on T1 and on T10, a provisional identifier that no
\* record has.  T1 may have the parent T10, and T2 may also be blocked by
\* T10 and have the body "#T1".
InitOffline ==
  /\ marker = NoMarker
  /\ alive = [p \in Procs |-> p = Pusher]
  /\ pc = [p \in Procs |-> IF p = Pusher THEN "idle" ELSE "dead"]
  /\ InitIdle
  /\ LET base == [Version("1", Unedited, "open", "old") EXCEPT !.labels = {"bug"}]
         local == [base EXCEPT !.parent = "T1", !.body = <<"#", "T", "1">>]
         t1 == [Version("T1", Unedited, "open", "none") EXCEPT
                  !.labels = {"ui"}, !.milestone = "v1"]
         t2 == [Version("T2", Unedited, "open", "none") EXCEPT
                  !.blockedBy = {"T1"}]
     IN  /\ \E dangling \in BOOLEAN :
              files = IF dangling
                        THEN <<local, [t1 EXCEPT !.parent = "T10"],
                               [t2 EXCEPT !.blockedBy = {"T1", "T10"},
                                          !.body = <<"#", "T", "1">>]>>
                        ELSE <<local, t1, t2>>
         /\ originals = [n \in Numbers |-> IF n = "1" THEN base ELSE NoRecord]
         /\ \E edited \in BOOLEAN :
              remote = [n \in Numbers |->
                          IF n = "1"
                            THEN [base EXCEPT !.synced = "none",
                                              !.title = IF edited THEN <<"C">> ELSE @]
                            ELSE NoRecord]
  /\ log = <<>>
  /\ vocab \in OfflineVocab
  /\ cache \in {{}, vocab}
  /\ \E pending \in {{}, {"1", "T1", "T10"}} :
       comments = [pending |-> pending, posted |-> {}]
  /\ sent = {}

InitPush == InitSolo \/ InitContended \/ InitOffline

\* A process that runs no Push uses the lock directly
IsClient(p) == push[p].phase = "off"

NextPush ==
  /\ \/ \E p \in Procs, force \in BOOLEAN, dryRun \in BOOLEAN :
          PushStart(p, force, dryRun)
     \/ \E p \in Procs : PushStep(p)
     \/ /\ \/ \E p \in Procs : LockStep(p)
           \/ \E p \in Procs, t \in Timeouts : IsClient(p) /\ Acquire(p, t)
           \/ \E p \in Procs : IsClient(p) /\ Release(p, "live")
           \/ \E p \in Procs : IsClient(p) /\ Crash(p)
           \/ Tick
        /\ UNCHANGED pushVars
  /\ UNCHANGED mapVars

SpecPush == InitPush /\ [][NextPush]_vars

(***************************************************************************)
(* Push run a second time on the store that the first run left             *)
(***************************************************************************)
\* The first run of p returned and the second has not been started
FirstRunOver(p) ==
  /\ push[p].phase = "done" /\ push[p].ret \in {"ok", "err"} /\ ~push[p].dryRun
  /\ \A j \in 1..Len(log) : log[j].op # "rerun"

\* The user runs push again: the local records, the Original Snapshots and
\* the remote issues are as the first run left them.
PushAgain(p) ==
  /\ FirstRunOver(p)
  /\ push' = [push EXCEPT ![p] = [NoPush EXCEPT !.phase = "ready"]]
  /\ log' = Append(log, Event(p, "rerun", "all", TRUE))
  /\ UNCHANGED <<lockVars, files, originals, remote>>
  /\ UNCHANGED sideVars

NextRerun ==
  \/ NextPush
  \/ /\ \E p \in Procs : PushAgain(p)
     /\ UNCHANGED mapVars

\* The stores of the first run: record 1 was retitled or had its state
\* changed locally, or both, and nobody touched the remote record (which may
\* be gone); the second record is any of Seconds.
InitInterrupted ==
  /\ marker = NoMarker
  /\ alive = [p \in Procs |-> p = Pusher]
  /\ pc = [p \in Procs |-> IF p = Pusher THEN "idle" ELSE "dead"]
  /\ InitIdle
  /\ \E second \in Seconds, found \in BOOLEAN :
       \E D \in (SUBSET {"state", "title"}) \ {{}} :
         InitStore(second, [f \in D |-> <<1, 0>>], "open", TRUE, found)

InitRerun == InitInterrupted \/ InitContended

SpecRerun == InitRerun /\ [][NextRerun]_vars

(***************************************************************************)
(* applyMapping on its own: one call on an issue whose body is made of at  *)
(* most MaxParts pieces                                                    *)
(***************************************************************************)
Pieces == {<<"#", "T", "1">>, <<"#", "T", "1", "0">>, <<"#", "T", "2">>,
           <<"#">>, <<" ">>, <<"0">>, <<"x">>}

\* The texts made of at most n pieces
RECURSIVE Texts(_)
Texts(n) ==
  IF n = 0 THEN {<<>>}
  ELSE Texts(n - 1) \cup {t \o piece : t \in Texts(n - 1), piece \in Pieces}

\* map[string]string{...}: the provisional identifiers m has a number for
Mapping(m) == [t \in LocalIds |-> IF t \in DOMAIN m THEN m[t] ELSE ""]

\* The relationships of the issue: none, T1 in one place, T1 everywhere,
\* T10 only
Relations ==
  {[parent |-> "", blockedBy |-> {}, blocks |-> {}],
   [parent |-> "T1", blockedBy |-> {}, blocks |-> {}],
   [parent |-> "", blockedBy |-> {"T1"}, blocks |-> {}],
   [parent |-> "", blockedBy |-> {}, blocks |-> {"T1"}],
   [parent |-> "T1", blockedBy |-> {"T1", "1"}, blocks |-> {"T1", "T10"}],
   [parent |-> "T10", blockedBy |-> {"1"}, blocks |-> {"T10"}]}

MapInputs ==
  {[issue |-> [Version("T2", Unedited, "open", "none") EXCEPT
                 !.title = title, !.body = body, !.parent = rel.parent,
                 !.blockedBy = rel.blockedBy, !.blocks = rel.blocks],
    mapping |-> Mapping(m)] :
     title \in {<<"A">>, <<"A", " ", "#", "T", "1">>},
     body \in Texts(MaxParts),
     rel \in Relations,
     m \in {[t \in {"T1"} |-> "2"],
            [t \in {"T1", "T2"} |-> IF t = "T1" THEN "2" ELSE "3"],
            [t \in {"T10"} |-> "3"]}}

InitMap ==
  /\ marker = NoMarker
  /\ alive = [p \in Procs |-> TRUE]
  /\ pc = [p \in Procs |-> "idle"]
  /\ info = [p \in Procs |-> NoPid]
  /\ deadline = [p \in Procs |-> 0]
  /\ wake = [p \in Procs |-> 0]
  /\ holding = [p \in Procs |-> FALSE]
  /\ released = [p \in Procs |-> FALSE]
  /\ relOf = [p \in Procs |-> "none"]
  /\ result = [p \in Procs |-> "none"]
  /\ files = <<>>
  /\ originals = [n \in Numbers |-> NoRecord]
  /\ remote = [n \in Numbers |-> NoRecord]
  /\ push = [p \in Procs |-> NoPush]
  /\ log = <<>>
  /\ vocab = {}
  /\ cache = {}
  /\ comments = [pending |-> {}, posted |-> {}]
  /\ sent = {}
  /\ arg \in MapInputs
  /\ out = NoRecord

\* changed := applyMapping(&issue, mapping)
ApplyMapping ==
  /\ out = NoRecord
  /\ out' = applyMapping(arg.issue, arg.mapping)
  /\ UNCHANGED <<lockVars, files, originals, remote, push, log, sideVars, arg>>

NextMap == ApplyMapping

SpecMap == InitMap /\ [][NextMap]_vars

(***************************************************************************)
(* Records as the code holds them (issue.Issue): labels, assignees,        *)
(* blocked-by and blocks are slices, the body is text with line endings.   *)
(* Normalize and the comparisons built on it, one call on records whose    *)
(* slices have at most MaxItems members and whose body has at most MaxBody *)
(* characters.                                                             *)
(***************************************************************************)
CR == "\r"
LF == "\n"

\* strings.TrimSpace on the strings of the model
TrimSpace(item) == IF item = " ui" THEN "ui" ELSE item

\* The strings of the model in the order of sort.Strings
StringOrder == <<"2", "3", "T1", "ann", "bob", "bug", "ui">>
Rank(item) == CHOOSE k \in 1..Len(StringOrder) : StringOrder[k] = item

\* The loop of sortedStrings and sortedRefs: every item trimmed, the empty
\* ones and the ones already seen dropped
RECURSIVE Cleaned(_, _)
Cleaned(items, seen) ==
  IF items = <<>> THEN <<>>
  ELSE LET item == TrimSpace(Head(items))
       IN  IF item = "" \/ item \in seen
             THEN Cleaned(Tail(items), seen)
             ELSE <<item>> \o Cleaned(Tail(items), seen \cup {item})

\* sort.Strings / sort.Slice by the string form
RECURSIVE SortStrings(_)
SortStrings(items) ==
  IF items = <<>> THEN <<>>
  ELSE LET rest == SortStrings(Tail(items))
           before == SelectSeq(rest, LAMBDA x : Rank(x) < Rank(Head(items)))
           after == SelectSeq(rest, LAMBDA x : Rank(x) >= Rank(Head(items)))
       IN  before \o <<Head(items)>> \o after

sortedStrings(items) ==
  IF Len(items) = 0 THEN <<>> ELSE SortStrings(Cleaned(items, {}))

sortedRefs(items) ==
  IF Len(items) = 0 THEN <<>> ELSE SortStrings(Cleaned(items, {}))

\* strings.ReplaceAll(body, "\r\n", "\n"): one pass from the left
RECURSIVE ReplaceCRLF(_)
ReplaceCRLF(body) ==
  IF body = <<>> THEN <<>>
  ELSE IF Len(body) >= 2 /\ body[1] = CR /\ body[2] = LF
    THEN <<LF>> \o ReplaceCRLF(SubSeq(body, 3, Len(body)))
    ELSE <<Head(body)>> \o ReplaceCRLF(Tail(body))

\* strings.TrimLeft(body, "\n")
RECURSIVE TrimLeftLF(_)
TrimLeftLF(body) ==
  IF body # <<>> /\ Head(body) = LF THEN TrimLeftLF(Tail(body)) ELSE body

normalizeBody(body) ==
  LET trimmed == TrimLeftLF(ReplaceCRLF(body))
  IN  IF trimmed = <<>> THEN <<>>
      ELSE IF trimmed[Len(trimmed)] # LF THEN Append(trimmed, LF)
      ELSE trimmed

\* issue.Normalize
Normalize(issue) ==
  [issue EXCEPT !.labels = sortedStrings(@),
                !.assignees = sortedStrings(@),
                !.blockedBy = sortedRefs(@),
                !.blocks = sortedRefs(@),
                !.body = normalizeBody(@)]

\* issue.EqualIgnoringSyncedAt on these records: both are normalized, the
\* synced timestamps are dropped, and the fields are compared one by one
SliceEqualIgnoringSyncedAt(a, b) ==
  LET na == Normalize(a)
      nb == Normalize(b)
  IN  /\ na.number = nb.number
      /\ na.title = nb.title
      /\ na.labels = nb.labels
      /\ na.assignees = nb.assignees
      /\ na.milestone = nb.milestone
      /\ na.state = nb.state
      /\ na.parent = nb.parent
      /\ na.blockedBy = nb.blockedBy
      /\ na.blocks = nb.blocks
      /\ na.body = nb.body

\* Mutant: the fields are compared as they are.
computeChanges_Raw(base, candidate) ==
  {f \in Fields : base[f] # candidate[f]}

\* computeChanges(base, candidate): the fields whose normalized values differ
computeChanges(base, candidate) ==
  LET nb == Normalize(base)
      nc == Normalize(candidate)
  IN  {f \in Fields : nb[f] # nc[f]}

\* An issue with no labels, relationships or body
PlainIssue ==
  [number |-> "1", title |-> <<"A">>, body |-> <<>>, milestone |-> "",
   labels |-> <<>>, assignees |-> <<>>, state |-> "open", parent |-> "",
   blockedBy |-> <<>>, blocks |-> <<>>, synced |-> "old"]

\* The sequences of at most n members of S
SeqsUpTo(S, n) == UNION {[1..k -> S] : k \in 0..n}

\* The issues that differ from PlainIssue in one respect
Variants(dim) ==
  CASE dim = "labels" ->
         {[PlainIssue EXCEPT !.labels = l] :
            l \in SeqsUpTo({"bug", "ui", " ui", ""}, MaxItems)}
    [] dim = "assignees" ->
         {[PlainIssue EXCEPT !.assignees = l] :
            l \in SeqsUpTo({"ann", "bob"}, MaxItems)}
    [] dim = "blockedBy" ->
         {[PlainIssue EXCEPT !.blockedBy = l] :
            l \in SeqsUpTo({"2", "3", "T1"}, MaxItems)}
    [] dim = "blocks" ->
         {[PlainIssue EXCEPT !.blocks = l] :
            l \in SeqsUpTo({"2", "3"}, MaxItems)}
    [] dim = "body" ->
         {[PlainIssue EXCEPT !.body = t] :
            t \in SeqsUpTo({"a", CR, LF}, MaxBody)}
    [] dim = "scalar" ->
         {[PlainIssue EXCEPT !.number = n, !.title = t, !.milestone = m,
                             !.state = st, !.parent = pa, !.synced = sy] :
            n \in {"1", "2"}, t \in {<<"A">>, <<"B">>}, m \in {"", "v1"},
            st \in {"open", "closed"}, pa \in {"", "2"}, sy \in {"old", "new"}}

Dimensions == {"labels", "assignees", "blockedBy", "blocks", "body", "scalar"}

\* No lock, no store, no Push
InitPure ==
  /\ marker = NoMarker
  /\ alive = [p \in Procs |-> TRUE]
  /\ pc = [p \in Procs |-> "idle"]
  /\ info = [p \in Procs |-> NoPid]
  /\ deadline = [p \in Procs |-> 0]
  /\ wake = [p \in Procs |-> 0]
  /\ holding = [p \in Procs |-> FALSE]
  /\ released = [p \in Procs |-> FALSE]
  /\ relOf = [p \in Procs |-> "none"]
  /\ result = [p \in Procs |-> "none"]
  /\ files = <<>>
  /\ originals = [n \in Numbers |-> NoRecord]
  /\ remote = [n \in Numbers |-> NoRecord]
  /\ push = [p \in Procs |-> NoPush]
  /\ log = <<>>
  /\ vocab = {}
  /\ cache = {}
  /\ comments = [pending |-> {}, posted |-> {}]
  /\ sent = {}

\* Two issues that differ in one respect
InitEqual ==
  /\ InitPure
  /\ \E dim \in Dimensions :
       \E x, y \in Variants(dim) : arg = [dim |-> dim, a |-> x, b |-> y]
  /\ out = NoRecord

\* issue.EqualIgnoringSyncedAt(a, b), and Normalize(a)
Equal ==
  /\ out = NoRecord
  /\ out' = [op |-> "equal",
             equal |-> SliceEqualIgnoringSyncedAt(arg.a, arg.b),
             normalized |-> Normalize(arg.a)]
  /\ UNCHANGED <<lockVars, files, originals, remote, push, log, sideVars, arg>>

\* computeChanges(a, b)
ComputeChanges ==
  /\ out = NoRecord
  /\ out' = [op |-> "changes", changes |-> computeChanges(arg.a, arg.b)]
  /\ UNCHANGED <<lockVars, files, originals, remote, push, log, sideVars, arg>>

NextEqual == Equal \/ ComputeChanges

SpecEqual == InitEqual /\ [][NextEqual]_vars

(***************************************************************************)
(* threeWayMerge on its own: one call on a base, a local and a remote      *)
(* record that differ in at most MaxDiverged fields.  The records are in   *)
(* normalized form.                                                        *)
(***************************************************************************)
\* Three values of every field, the first one the value of the base
MergeValue ==
  [title |-> <<<<"A">>, <<"B">>, <<"C">>>>,
   body |-> <<<<>>, <<"a", LF>>, <<"a", "a", LF>>>>,
   milestone |-> <<"", "v1", "v2">>,
   labels |-> <<<<>>, <<"bug">>, <<"bug", "ui">>>>,
   assignees |-> <<<<>>, <<"ann">>, <<"bob">>>>,
   state |-> <<"open", "closed", "closed">>,
   parent |-> <<"", "2", "3">>,
   blockedBy |-> <<<<>>, <<"2">>, <<"2", "3">>>>,
   blocks |-> <<<<>>, <<"2">>, <<"2", "3">>>>]

\* The record whose field f has value number sel[f]
MergeRecord(sel) ==
  [f \in Fields \cup {"number", "synced"} |->
     IF f = "number" THEN "1"
     ELSE IF f = "synced" THEN "old"
     ELSE MergeValue[f][sel[f] + 1]]

\* How a field of the local and of the remote record can differ from the
\* base: the numbers of their values, not both 0
Divergent == {sel \in [local : 0..2, remote : 0..2] : sel.local + sel.remote > 0}

\* The base, and the local and remote records that have the values sel
\* gives for the fields of its domain and the values of the base elsewhere
MergeInput(sel) ==
  [base |-> MergeRecord([f \in Fields |-> 0]),
   local |-> MergeRecord([f \in Fields |->
                            IF f \in DOMAIN sel THEN sel[f].local ELSE 0]),
   remote |-> MergeRecord([f \in Fields |->
                             IF f \in DOMAIN sel THEN sel[f].remote ELSE 0])]

\* The orders in which the fields are gone through
FieldOrder == <<"title", "body", "milestone", "labels", "assignees", "state",
                "parent", "blockedBy", "blocks">>
Reversed(order) == [k \in 1..Len(order) |-> order[Len(order) + 1 - k]]
Orders == {FieldOrder, Reversed(FieldOrder)}

\* Step 1: the fields in which local diverged from the base, those in which
\* remote did, and those in which local and remote differ
Divergence(base, loc, rem) ==
  [local |-> computeChanges(base, loc),
   remote |-> computeChanges(base, rem),
   between |-> computeChanges(loc, rem)]

\* Mutant: a field that both sides changed is a conflict.
Conflicting_BothChanged(div, f) ==
  f \in div.local /\ f \in div.remote

\* Step 5: both diverged from the base, to different values
Conflicting(div, f) ==
  f \in div.local /\ f \in div.remote /\ f \in div.between

\* Mutant: a field that only the local side changed keeps the base value.
MergedValue_DropsLocal(div, base, loc, rem, kept, f) ==
  IF Conflicting(div, f) THEN kept[f]
  ELSE IF f \in div.remote THEN rem[f]
  ELSE base[f]

\* Steps 2, 3, 4 and 6: the value of the side that diverged from the base;
\* step 5: for a conflicting field the spec asks for a best-effort value,
\* here the value of the record kept
MergedValue(div, base, loc, rem, kept, f) ==
  IF Conflicting(div, f) THEN kept[f]
  ELSE IF f \in div.local THEN loc[f]
  ELSE IF f \in div.remote THEN rem[f]
  ELSE base[f]

\* The fields of order from position k on, one after the other: the merged
\* record and the Conflict Set so far
RECURSIVE MergeFrom(_, _, _, _, _, _, _, _)
MergeFrom(k, order, div, base, loc, rem, kept, acc) ==
  IF k > Len(order) THEN acc
  ELSE LET f == order[k]
           next == [merged |-> [acc.merged EXCEPT
                                  ![f] = MergedValue(div, base, loc, rem, kept, f)],
                    conflicts |-> IF Conflicting(div, f)
                                    THEN acc.conflicts \cup {f}
                                    ELSE acc.conflicts]
       IN  MergeFrom(k + 1, order, div, base, loc, rem, kept, next)

\* Mutant: the merge returns at the first conflicting field.
threeWayMerge_StopsAtConflict(base, loc, rem, order, kept, against) ==
  LET div == Divergence(base, loc, rem)
      first == {k \in 1..Len(order) : Conflicting(div, order[k])}
      upto == IF first = {} THEN order
              ELSE SubSeq(order, 1, CHOOSE k \in first : \A j \in first : k <= j)
      done == MergeFrom(1, upto, div, base, loc, rem, kept,
                        [merged |-> base, conflicts |-> {}])
  IN  [merged |-> done.merged,
       conflicts |-> done.conflicts,
       ok |-> done.conflicts = {},
       localChanges |-> IF against = "base" THEN div.local
                        ELSE computeChanges(rem, done.merged)]

\* threeWayMerge(base, local, remote) -> {merged, conflicts, localChanges}:
\* the fields are merged one by one in the given order.  The spec does not
\* say which value a conflicting field gets (kept: that of the base, the
\* local or the remote record) nor against which record localChanges is
\* taken (against: the base, as the changes of the local record, or the
\* remote, as the changes left to push).
threeWayMerge(base, loc, rem, order, kept, against) ==
  LET div == Divergence(base, loc, rem)
      done == MergeFrom(1, order, div, base, loc, rem, kept,
                        [merged |-> base, conflicts |-> {}])
  IN  [merged |-> done.merged,
       conflicts |-> done.conflicts,
       ok |-> done.conflicts = {},
       localChanges |-> IF against = "base" THEN div.local
                        ELSE computeChanges(rem, done.merged)]

\* The three records differ in at most MaxDiverged fields
InitMerge ==
  /\ InitPure
  /\ \E D \in SUBSET Fields :
       /\ Cardinality(D) <= MaxDiverged
       /\ \E sel \in [D -> Divergent] : arg = MergeInput(sel)
  /\ out = NoRecord

\* result := ThreeWayMerge(base, local, remote)
ThreeWayMerge ==
  /\ out = NoRecord
  /\ \E order \in Orders, kept \in {"base", "local", "remote"},
        against \in {"base", "remote"} :
       out' = threeWayMerge(arg.base, arg.local, arg.remote, order,
                            arg[kept], against)
  /\ UNCHANGED <<lockVars, files, originals, remote, push, log, sideVars, arg>>

NextMerge == ThreeWayMerge

SpecMerge == InitMerge /\ [][NextMerge]_vars

(***************************************************************************)
(* localid.Generate                                                        *)
(***************************************************************************)
IDLength == 4

\* Two of the 256 values that rand.Read may put into a byte
ByteValues == {0, 171}

HexDigits ==
  <<"0", "1", "2", "3", "4", "5", "6", "7", "8", "9", "a", "b", "c", "d", "e", "f">>

\* hex.EncodeToString(bytes): two digits for a byte, the high one first
RECURSIVE EncodeToString(_)
EncodeToString(bytes) ==
  IF bytes = <<>> THEN <<>>
  ELSE <<HexDigits[(Head(bytes) \div 16) + 1], HexDigits[(Head(bytes) % 16) + 1]>>
         \o EncodeToString(Tail(bytes))

\* No identifier was generated yet
InitGenerate ==
  /\ InitPure
  /\ arg = NoRecord
  /\ out = [seen |-> <<>>, err |-> FALSE]

\* id, err := Generate(): rand.Read fails, or it fills the bytes with values
\* that depend on nothing the program holds
Generate ==
  /\ ~out.err /\ Len(out.seen) < MaxIds
  /\ \/ out' = [out EXCEPT !.err = TRUE]
     \/ \E bytes \in [1..IDLength -> ByteValues] :
          out' = [out EXCEPT !.seen = Append(@, EncodeToString(bytes))]
  /\ UNCHANGED <<lockVars, files, originals, remote, push, log, sideVars, arg>>

NextGenerate == Generate

SpecGenerate == InitGenerate /\ [][NextGenerate]_vars

(***************************************************************************)
(* Properties of Push                                                      *)
(***************************************************************************)
\* The remote calls of p that change issue n (failed calls included)
Mutations(p, n) ==
  {k \in 1..Len(log) : /\ log[k].proc = p /\ log[k].num = n
                       /\ log[k].op \in {"close", "reopen", "edit", "rel"}}

\* p's Push has the lock: Acquire succeeded (Release may have run since)
Acquired(p) == holding[p] \/ released[p]

StoreAsAtStart(p) ==
  /\ files = push[p].start.files
  /\ originals = push[p].start.originals
  /\ remote = push[p].start.remote

\* C7: whenever Push returns after it acquired the lock, with success, after
\* a dry run or with an error, the marker it created no longer exists.
C7_PushReleasesLock ==
  \A p \in Procs :
    (push[p].phase = "done" /\ push[p].ret # "lock")
      => ~(marker.kind \in {"empty", "info"} /\ marker.pid = p)

\* Push returned an error from inside the locked region and ran Release.
C7_Witness ==
  \E p \in Procs :
    /\ push[p].phase = "done" /\ push[p].ret = "err"
    /\ released[p] /\ \E k \in 1..Len(log) : log[k].proc = p

\* C8: a Push whose Acquire returned the timeout error returns that error
\* and has not read or changed any record file, Original Snapshot or remote
\* issue: beyond Acquire, Push runs only with the lock.
C8_TimeoutTouchesNothing ==
  \A p \in Procs :
    (push[p].phase \notin {"off", "ready", "locking"} /\ ~Acquired(p))
      => /\ push[p].phase = "done" /\ push[p].ret = "lock"
         /\ \A k \in 1..Len(log) : log[k].proc # p
         /\ StoreAsAtStart(p)

\* Push gave up on the lock while the store had an edited record to push.
C8_Witness ==
  \E p \in Procs :
    /\ push[p].phase = "done" /\ push[p].ret = "lock"
    /\ \E k \in 1..Len(files) : localChanged(files[k])

C10_ForceLocalWins ==
  \A p \in Procs :
    (push[p].phase = "done" /\ push[p].ret = "ok"
       /\ push[p].force /\ ~push[p].dryRun)
      => /\ push[p].reported = {}
         /\ \A k \in 1..Len(push[p].start.files) :
              LET n == push[p].start.files[k].number
              IN  (/\ ~IsLocal(n)
                   /\ push[p].start.remote[n] # NoRecord
                   /\ \E j \in 1..Len(push[p].works) : push[p].works[j].item = k
                   /\ \A j \in 1..Len(log) : log[j].num = n => log[j].ok)
                  => \A f \in EditFields \cup {"state"} :
                       remote[n][f] = files[k][f]

\* The remote calls of p for issue n that failed
Failed(p, n) ==
  {k \in 1..Len(log) : log[k].proc = p /\ log[k].num = n /\ ~log[k].ok}

\* C11: after a real Push, a record for which a remote mutation failed (a
\* per-record error of the batched edit, a failed relationship sync) or that
\* conflicted has the Original Snapshot and the synced timestamp it had
\* before the run.
C11_FailedKeepsSnapshot ==
  \A p \in Procs :
    (push[p].phase = "done" /\ push[p].ret # "lock" /\ ~push[p].dryRun)
      => \A k \in 1..Len(push[p].start.files) :
           LET n == push[p].start.files[k].number
           IN  (/\ ~IsLocal(n)
                /\ \/ Failed(p, n) # {}
                   \/ \E j \in 1..Len(push[p].conflicts) : push[p].conflicts[j] = n)
               => /\ originals[n] = push[p].start.originals[n]
                  /\ files[k].synced = push[p].start.files[k].synced

\* C12: a real Push in which only remote calls for single records failed
\* (create, close, reopen, field edit, relationship sync) is not aborted: it
\* goes through the post-batch work of every record and returns no error.
C12_RecordFailureNoAbort ==
  \A p \in Procs :
    (/\ push[p].phase = "done" /\ push[p].ret # "lock" /\ ~push[p].dryRun
     /\ \A k \in 1..Len(log) :
          (log[k].proc = p /\ ~log[k].ok)
            => log[k].op \in {"create", "close", "reopen", "edit", "rel"})
      => /\ push[p].ret = "ok"
         /\ push[p].i > Len(push[p].works)

\* The text has a reference token for identifier t at position i: "#", the
\* characters of t, and then the end of the text or a character that is not
\* part of a word
RefAt(text, i, t) ==
  LET n == Len(IdChars(t))
  IN  /\ i + n <= Len(text)
      /\ text[i] = "#"
      /\ SubSeq(text, i + 1, i + n) = IdChars(t)
      /\ i + n = Len(text) \/ text[i + n + 1] \in {"#", " "}

\* The number of reference tokens for t in the text
RefCount(text, t) == Cardinality({i \in 1..Len(text) : RefAt(text, i, t)})

HasRef(text, t) == RefCount(text, t) > 0

\* Issue iss refers to identifier t
RefersTo(iss, t) ==
  \/ iss.parent = t \/ t \in iss.blockedBy \/ t \in iss.blocks
  \/ HasRef(iss.title, t) \/ HasRef(iss.body, t)

\* A real Push of p that had the lock has returned
RealDone(p) ==
  push[p].phase = "done" /\ push[p].ret # "lock" /\ ~push[p].dryRun

\* C13: once the creation of a missing label or milestone failed, Push issues
\* no create, edit, close or reopen of an issue, and it returns an error.
C13_VocabFailureFatal ==
  \A p \in Procs :
    \A k \in 1..Len(log) :
      (log[k].proc = p /\ log[k].op = "vocab" /\ ~log[k].ok)
        => /\ \A j \in (k + 1)..Len(log) :
                log[j].proc = p
                  => log[j].op \notin {"create", "edit", "close", "reopen"}
           /\ push[p].phase = "done" => push[p].ret = "err"

\* The labels and the milestone of the record that call e of a step is for
Carried(e) ==
  LET items == push'[e.proc].items
      k == CHOOSE j \in 1..Len(items) : items[j].issue.number = e.num
  IN  items[k].issue.labels \cup ({items[k].issue.milestone} \ {""})

\* C14: whenever Push issues the call that creates or edits an issue, every
\* label and the milestone the record carries exist on the remote tracker.
C14_VocabularyPrecedesRecords ==
  [][\A k \in (Len(log) + 1)..Len(log') :
       log'[k].op \in {"create", "edit"} => Carried(log'[k]) \subseteq vocab]_vars

\* C15: from its start to its return a dry-run Push has made no call or
\* store access but loading the records, and the record files, the Original
\* Snapshots, the remote issues, the remote vocabulary, the vocabulary
\* caches, the pending comments and the posted comments are as at its start.
C15_DryRunChangesNothing ==
  \A p \in Procs :
    (push[p].dryRun /\ push[p].phase \notin {"off", "ready"})
      => /\ \A k \in 1..Len(log) : log[k].proc = p => log[k].op = "load"
         /\ StoreAsAtStart(p)
         /\ vocab = push[p].start.vocab
         /\ cache = push[p].start.cache
         /\ comments = push[p].start.comments

\* A dry run returned after it reported a label, an issue and a comment it
\* would create and an issue it would push.
C15_Witness ==
  \E p \in Procs :
    /\ push[p].dryRun /\ push[p].phase = "done" /\ push[p].ret = "ok"
    /\ \A kind \in {"vocab", "create", "push", "comment"} :
         \E k \in 1..Len(push[p].would) : push[p].would[k].kind = kind

\* The remote calls of p that create or change an issue
MutatingCalls(p) ==
  SelectSeq(log, LAMBDA e : e.proc = p /\ e.op \in {"create", "close", "reopen",
                                                   "edit", "rel"})

\* The records p's Push mutated remotely, as slots of the record set, in the
\* order of the first call for each
Mutated(p) ==
  LET calls == MutatingCalls(p)
      first == Ascending({k \in 1..Len(calls) :
                            \A j \in 1..(k - 1) : calls[j].num # calls[k].num})
  IN  [j \in 1..Len(first) |->
         CHOOSE k \in 1..Len(files) : files[k].number = calls[first[j]].num]

\* C16: the records a dry run on the store reports it would create or push
\* are, in content and order, the records a real run on that store mutates.
\* (Checked for real runs that returned without error.)
C16_DryRunFaithful ==
  \A p \in Procs :
    (RealDone(p) /\ push[p].ret = "ok")
      => Mutated(p) = WouldCreate(push[p].start.files)
                        \o WouldPush(push[p].start.files, push[p].start.originals)

\* C17: when a real Push has returned after the creation of a provisional
\* record failed, no local record refers to the provisional identifier of a
\* record that was created.
C17_CreatedNeverDangling ==
  \A p \in Procs :
    (/\ RealDone(p)
     /\ \E k \in 1..Len(log) :
          log[k].proc = p /\ log[k].op = "create" /\ ~log[k].ok)
      => \A t \in Mapped(push[p].mapping) :
           \A k \in 1..Len(files) : ~RefersTo(files[k], t)

\* C18: when a real Push has returned, with success or with an error, either
\* no local record refers to a mapped provisional identifier any more, or
\* every record that referred to one at the start still does.
C18_RemapAllOrNothing ==
  \A p \in Procs :
    RealDone(p)
      => \/ \A t \in Mapped(push[p].mapping) :
              \A k \in 1..Len(files) : ~RefersTo(files[k], t)
         \/ \A t \in Mapped(push[p].mapping) :
              \A k \in 1..Len(files) :
                RefersTo(push[p].start.files[k], t) => RefersTo(files[k], t)

\* C19: after applyMapping, for every mapped provisional identifier P the
\* issue does not refer to P any more: a parent P, a blocked-by or blocks
\* member P and every token #P of title and body have become the number P
\* is mapped to; and if the issue referred to P, applyMapping returns true.
C19_RemapComplete ==
  out # NoRecord
    => \A t \in Mapped(arg.mapping) :
         LET before == arg.issue
             after == out.issue
             n == arg.mapping[t]
         IN  /\ ~RefersTo(after, t)
             /\ before.parent = t => after.parent = n
             /\ t \in before.blockedBy => n \in after.blockedBy
             /\ t \in before.blocks => n \in after.blocks
             /\ RefCount(after.title, n)
                  >= RefCount(before.title, t) + RefCount(before.title, n)
             /\ RefCount(after.body, n)
                  >= RefCount(before.body, t) + RefCount(before.body, n)
             /\ RefersTo(before, t) => out.changed

\* applyMapping was given T1 -> 2 and an issue that has T1 as parent, in
\* blocked-by, in blocks and twice in its body.
C19_Witness ==
  /\ out # NoRecord /\ out.changed
  /\ Mapped(arg.mapping) = {"T1"}
  /\ arg.issue.parent = "T1" /\ "T1" \in arg.issue.blockedBy
  /\ "T1" \in arg.issue.blocks /\ RefCount(arg.issue.body, "T1") = 2
  /\ RefCount(out.issue.body, "2") = 2

\* C20: applyMapping leaves alone what is not a reference to a mapped
\* identifier: a parent, a blocked-by or blocks member that is not mapped
\* keeps its value, the tokens of the provisional identifiers that are not
\* mapped stay, a text without a token of a mapped identifier is unchanged
\* (#T10 under a mapping of T1), and an issue that refers to no mapped
\* identifier is returned as it was, with changed = false.
C20_RemapExact ==
  out # NoRecord
    => LET before == arg.issue
           after == out.issue
           mapped == Mapped(arg.mapping)
       IN  /\ before.parent \notin mapped => after.parent = before.parent
           /\ before.blockedBy \ mapped \subseteq after.blockedBy
           /\ before.blocks \ mapped \subseteq after.blocks
           /\ \A t \in LocalIds \ mapped :
                /\ RefCount(after.title, t) = RefCount(before.title, t)
                /\ RefCount(after.body, t) = RefCount(before.body, t)
           /\ (\A t \in mapped : ~HasRef(before.title, t))
                => after.title = before.title
           /\ (\A t \in mapped : ~HasRef(before.body, t))
                => after.body = before.body
           /\ (\A t \in mapped : ~RefersTo(before, t))
                => after = before /\ ~out.changed

\* applyMapping was given T1 -> 2 and an issue with the body "#T1 #T10",
\* the parent T10 and T10 in blocks: #T1 became #2, every T10 stayed.
C20_Witness ==
  /\ out # NoRecord
  /\ Mapped(arg.mapping) = {"T1"}
  /\ arg.issue.body = <<"#", "T", "1", " ", "#", "T", "1", "0">>
  /\ out.issue.body = <<"#", "2", " ", "#", "T", "1", "0">>
  /\ arg.issue.parent = "T10" /\ out.issue.parent = "T10"
  /\ "T10" \in out.issue.blocks

\* The step of p that runs the loop updating the references
RemapStep(p) == push[p].phase = "remap" /\ push'[p].phase # "remap"

\* The numbers of the records for which the step calls WriteFile
WrittenInStep ==
  {log'[j].num : j \in {i \in Len(log) + 1..Len(log') : log'[i].op = "write"}}

\* C21: in the loop that updates the references, an issue that refers to no
\* mapped provisional identifier comes back from applyMapping with changed =
\* false and every field as it was, and its file is neither written nor
\* changed; a file is written or changed only if applyMapping returned true
\* for its issue.
C21_RemapFrame ==
  [][\A p \in Procs :
       RemapStep(p)
         => \A k \in 1..Len(files) :
              LET r == applyMapping(files[k], push[p].mapping)
                  touched == \/ files'[k] # files[k]
                             \/ r.issue.number \in WrittenInStep
              IN  /\ (\A t \in Mapped(push[p].mapping) : ~RefersTo(files[k], t))
                       => ~r.changed /\ r.issue = files[k] /\ ~touched
                  /\ touched => r.changed]_vars

\* The loop has run with T1 mapped: the file of record 1, which referred to
\* T1, was written, and the file of the record created from T1, which refers
\* to no provisional identifier, was written once only, when it was created.
C21_Witness ==
  \E p \in Procs :
    /\ push[p].phase = "synccreated"
    /\ push[p].mapping["T1"] # ""
    /\ \E j \in 1..Len(log) : log[j] = Event(p, "write", "1", TRUE)
    /\ Cardinality({j \in 1..Len(log) :
                      log[j] = Event(p, "write", push[p].mapping["T1"], TRUE)}) = 1

\* C22: no number that Push hands to a remote fetch, close, reopen, edit,
\* comment, parent or blocked-by call, as the issue of the call or as the
\* issue it refers to, is a provisional identifier.
C22_NoProvisionalSent == \A n \in sent : ~IsLocal(n)

\* Push has synced the relationships of a record that, at that time, was
\* blocked by a provisional identifier, and of a record whose parent was one.
C22_Witness ==
  \E p \in Procs :
    /\ push[p].phase = "done"
    /\ \E k \in 1..Len(files) :
         /\ \E b \in files[k].blockedBy : IsLocal(b)
         /\ \E j \in 1..Len(log) : log[j] = Event(p, "rel", files[k].number, TRUE)
    /\ \E k \in 1..Len(files) :
         /\ IsLocal(files[k].parent)
         /\ \E j \in 1..Len(log) : log[j].op = "rel" /\ log[j].num = files[k].number

\* The members of a slice
Members(items) == {items[k] : k \in 1..Len(items)}

\* The fields that hold a set of members as a slice
ListFields == {"labels", "assignees", "blockedBy", "blocks"}

\* a and b differ at most in the order or the duplication of the members of
\* their slices
SameUpToOrder(a, b) ==
  /\ a.number = b.number
  /\ \A f \in Fields :
       IF f \in ListFields THEN Members(a[f]) = Members(b[f]) ELSE a[f] = b[f]

\* The value of field f that counts: the set of the trimmed, non-empty
\* members of a slice, the normalized body, the value itself otherwise
Canonical(issue, f) ==
  IF f \in ListFields THEN {TrimSpace(x) : x \in Members(issue[f])} \ {""}
  ELSE IF f = "body" THEN normalizeBody(issue.body)
  ELSE issue[f]

\* C27: computeChanges(base, candidate) marks a field iff its normalized
\* values differ: a field with equal values is not marked, and two records
\* that differ only in the order or duplication of the members of labels,
\* assignees, blocked-by or blocks give the empty Change-Set.
C27_ChangesAreNormalizedDiff ==
  (out # NoRecord /\ out.op = "changes")
    => /\ \A f \in Fields :
            f \in out.changes <=> Canonical(arg.a, f) # Canonical(arg.b, f)
       /\ \A f \in Fields : arg.a[f] = arg.b[f] => f \notin out.changes
       /\ SameUpToOrder(arg.a, arg.b) => out.changes = {}

\* computeChanges was given a record with the labels [ui, bug] and one with
\* the labels [bug, ui], and marked nothing.
C27_Witness ==
  /\ out # NoRecord /\ out.op = "changes"
  /\ arg.a.labels = <<"ui", "bug">> /\ arg.b.labels = <<"bug", "ui">>
  /\ out.changes = {}

\* The pieces of a text between its line feeds; the last piece is what
\* follows the last line feed
RECURSIVE SplitLF(_, _)
SplitLF(text, piece) ==
  IF text = <<>> THEN <<piece>>
  ELSE IF Head(text) = LF THEN <<piece>> \o SplitLF(Tail(text), <<>>)
  ELSE SplitLF(Tail(text), Append(piece, Head(text)))

\* A line without the carriage return of its ending
StripCR(line) ==
  IF line # <<>> /\ line[Len(line)] = CR THEN SubSeq(line, 1, Len(line) - 1)
                                         ELSE line

\* The lines of a text, without their endings; a text that does not end
\* with a line feed has an unterminated last line
Lines(text) ==
  LET pieces == SplitLF(text, <<>>)
      n == Len(pieces)
      ended == [k \in 1..n - 1 |-> StripCR(pieces[k])]
  IN  IF pieces[n] = <<>> THEN ended ELSE Append(ended, pieces[n])

\* a and b differ at most in the line endings of their bodies and in the
\* newline at the end
SameUpToLineEndings(a, b) ==
  /\ a.number = b.number
  /\ \A f \in Fields \ {"body"} : a[f] = b[f]
  /\ Lines(a.body) = Lines(b.body)

\* C29: EqualIgnoringSyncedAt is reflexive, symmetric and transitive, it
\* ignores the synced timestamp, it holds of two records that differ only in
\* the order or duplication of the members of a slice or only in the line
\* endings and the trailing newline of the body, and it holds of a record
\* and its Normalize result.
C29_EqualIsEquivalence ==
  (out # NoRecord /\ out.op = "equal")
    => LET a == arg.a
           b == arg.b
       IN  /\ SliceEqualIgnoringSyncedAt(a, a)
           /\ out.equal = SliceEqualIgnoringSyncedAt(b, a)
           /\ out.equal
                => \A c \in Variants(arg.dim) :
                     SliceEqualIgnoringSyncedAt(b, c)
                       => SliceEqualIgnoringSyncedAt(a, c)
           /\ \A sy \in {"old", "new", "none"} :
                out.equal = SliceEqualIgnoringSyncedAt(a, [b EXCEPT !.synced = sy])
           /\ SameUpToOrder(a, b) => out.equal
           /\ SameUpToLineEndings(a, b) => out.equal
           /\ SliceEqualIgnoringSyncedAt(a, out.normalized)

\* Field f of the local record of the merge differs from the base
LocalDiverged(f) == arg.local[f] # arg.base[f]
\* Field f of the remote record of the merge differs from the base
RemoteDiverged(f) == arg.remote[f] # arg.base[f]

\* The value the contract gives field f of the merged record; a field on
\* which the sides disagree has none
Expected(f) ==
  IF LocalDiverged(f) /\ ~RemoteDiverged(f) THEN {arg.local[f]}
  ELSE IF ~LocalDiverged(f) /\ RemoteDiverged(f) THEN {arg.remote[f]}
  ELSE IF ~LocalDiverged(f) /\ ~RemoteDiverged(f) THEN {arg.base[f]}
  ELSE IF arg.local[f] = arg.remote[f] THEN {arg.local[f]}
  ELSE {}

\* C23: every field of the merged record has local's value when only local
\* diverged from base, remote's when only remote diverged, the common value
\* when both diverged to the same value and base's when neither diverged,
\* whatever the other fields are; and when local equals base, localChanges
\* is empty and the merged record is the remote one.
C23_MergePerField ==
  out # NoRecord
    => /\ \A f \in Fields : \A v \in Expected(f) : out.merged[f] = v
       /\ (\A f \in Fields : ~LocalDiverged(f))
            => /\ out.localChanges = {}
               /\ \A f \in Fields : out.merged[f] = arg.remote[f]

\* The merge of a local record with a new title and a remote record with
\* new labels has both; the merge of an unchanged local record has no local
\* changes.
C23_Witness ==
  /\ out # NoRecord /\ out.ok
  /\ arg.local.title = <<"B">> /\ arg.remote.title = <<"A">>
  /\ arg.local.labels = <<>> /\ arg.remote.labels = <<"bug">>
  /\ out.merged.title = <<"B">> /\ out.merged.labels = <<"bug">>

\* C24: the Conflict Set is the set of fields in which local differs from
\* base, remote differs from base and local differs from remote, in whatever
\* order the fields are gone through; the merge is OK iff that set is empty;
\* and when a field conflicts, the fields that do not are merged all the same.
C24_ConflictSetExact ==
  out # NoRecord
    => /\ out.conflicts = {f \in Fields : /\ LocalDiverged(f) /\ RemoteDiverged(f)
                                          /\ arg.local[f] # arg.remote[f]}
       /\ out.ok <=> out.conflicts = {}
       /\ out.conflicts # {}
            => \A f \in Fields \ out.conflicts :
                 \/ out.merged[f] = arg.local[f] /\ LocalDiverged(f)
                 \/ out.merged[f] = arg.remote[f] /\ ~LocalDiverged(f)

\* Both sides changed the title, to different values, and the remote side
\* added a label: the title alone conflicts and the label is merged.
C24_Witness ==
  /\ out # NoRecord /\ ~out.ok
  /\ arg.local.title = <<"B">> /\ arg.remote.title = <<"C">>
  /\ arg.remote.labels = <<"bug">> /\ arg.local.labels = <<>>
  /\ out.conflicts = {"title"}
  /\ out.merged.labels = <<"bug">>

\* C25: threeWayMerge(base, local, local) is OK, its Conflict Set is empty
\* and its merged record equals local.
C25_MergeIdempotent ==
  (out # NoRecord /\ arg.remote = arg.local)
    => /\ out.ok
       /\ out.conflicts = {}
       /\ \A f \in Fields \cup {"number"} : out.merged[f] = arg.local[f]

\* threeWayMerge was given the same record, with a title and a state that
\* differ from the base, as local and as remote.
C25_Witness ==
  /\ out # NoRecord /\ out.ok
  /\ arg.remote = arg.local
  /\ arg.local.title = <<"B">> /\ arg.local.state = "closed"
  /\ arg.base.title = <<"A">> /\ arg.base.state = "open"
  /\ out.merged.title = <<"B">> /\ out.merged.state = "closed"

\* C26: whenever local equals remote, threeWayMerge is OK, has no conflicts
\* and its localChanges is empty.
C26_NoOpConvergence ==
  (out # NoRecord /\ arg.local = arg.remote)
    => out.ok /\ out.conflicts = {} /\ out.localChanges = {}

\* The calls of kind op that p issued for issue n
Calls(p, op, n) ==
  {j \in 1..Len(log) : log[j].proc = p /\ log[j].op = op /\ log[j].num = n}

\* The record of slot k as Push compares it: the local version with the
\* provisional identifiers remapped, and the baseline, which is the Original
\* Snapshot or, without one, the remote version
Compared(p, k) ==
  LET local == applyMapping(push[p].start.files[k], push[p].mapping).issue
      n == local.number
  IN  [local |-> local,
       baseline |-> IF push[p].start.originals[n] # NoRecord
                      THEN push[p].start.originals[n]
                      ELSE push[p].start.remote[n]]

\* C28: in a real run, a close call for a record is issued only if its
\* baseline is open and its local state closed, a reopen call only if its
\* baseline is closed and its local state open; a record gets at most one
\* such call, a call of its own that comes before the batched field edit;
\* and every record that Push took a baseline for and queued for the work
\* after the batch got the call that its states ask for.
C28_TransitionCalls ==
  \A p \in Procs :
    (push[p].start # NoRecord /\ ~push[p].dryRun)
      => \A k \in 1..Len(push[p].start.files) :
           LET n == push[p].start.files[k].number
               c == Compared(p, k)
               closes == Calls(p, "close", n)
               reopens == Calls(p, "reopen", n)
               toClose == c.baseline.state = "open" /\ c.local.state = "closed"
               toReopen == c.baseline.state = "closed" /\ c.local.state = "open"
           IN  (~IsLocal(n) /\ push[p].start.remote[n] # NoRecord)
                 => /\ closes # {} => toClose
                    /\ reopens # {} => toReopen
                    /\ Cardinality(closes \cup reopens) <= 1
                    /\ \A j \in closes \cup reopens :
                         \A e \in Calls(p, "edit", n) : j < e
                    /\ (\E j \in 1..Len(push[p].works) : push[p].works[j].item = k)
                         => /\ toClose => closes # {}
                            /\ toReopen => reopens # {}

\* Push returned without error after it closed record 2 in a call of its
\* own and edited the title of record 1 in the batch.
C28_Witness ==
  \E p \in Procs :
    /\ RealDone(p) /\ push[p].ret = "ok"
    /\ Calls(p, "close", "2") # {} /\ Calls(p, "edit", "2") = {}
    /\ Calls(p, "edit", "1") # {} /\ Calls(p, "close", "1") = {}

\* The records of a Push that had no readable Original Snapshot when Push
\* read the store, as slots of its loaded issues
Unsynced(p) ==
  {k \in 1..Len(push[p].items) :
     LET n == push[p].items[k].issue.number
     IN  ~IsLocal(n) /\ n \notin Created(p)
           /\ push[p].start.originals[n] = NoRecord}

\* C30: a record without a readable Original Snapshot is never listed or
\* reported as a conflict; a real Push that returns an error made a remote
\* call that failed; and once a real Push is through its detection loop
\* without an error, every such record that the remote has is queued with
\* exactly the difference between the fetched remote version and the local
\* record, its field edits in the batch.
C30_NoSnapshotBaselineRemote ==
  \A p \in Procs :
    push[p].start # NoRecord
      => /\ \A k \in Unsynced(p) :
              LET n == push[p].items[k].issue.number
              IN  /\ \A j \in 1..Len(push[p].conflicts) : push[p].conflicts[j] # n
                  /\ n \notin push[p].reported
         /\ (~push[p].dryRun /\ push[p].ret = "err")
              => \E j \in 1..Len(log) : log[j].proc = p /\ ~log[j].ok
         /\ (~push[p].dryRun /\ push[p].ret # "err"
               /\ push[p].phase \in {"batch", "post", "comments", "release", "done"})
              => \A k \in Unsynced(p) :
                   LET local == push[p].items[k].issue
                       n == local.number
                       rem == push[p].fetched[n]
                       queued == {j \in 1..Len(push[p].works) : push[p].works[j].item = k}
                       updates == {j \in 1..Len(push[p].batch) : push[p].batch[j].number = n}
                   IN  push[p].start.remote[n] # NoRecord
                         => /\ rem # NoRecord
                            /\ Cardinality(queued) = 1
                            /\ \A j \in queued :
                                 push[p].works[j].change = diffIssue(rem, local)
                            /\ \A j \in updates :
                                 push[p].batch[j].edits = diffIssue(rem, local).edits
                            /\ Cardinality(updates)
                                 = IF hasEdits(diffIssue(rem, local)) THEN 1 ELSE 0

\* Push returned without error after it edited and closed a record that had
\* no Original Snapshot and differed from the remote version.
C30_Witness ==
  \E p \in Procs :
    /\ RealDone(p) /\ push[p].ret = "ok"
    /\ \E k \in Unsynced(p) :
         LET n == push[p].items[k].issue.number
         IN  /\ \E j \in 1..Len(push[p].works) :
                  /\ push[p].works[j].item = k
                  /\ push[p].works[j].change.edits # {}
                  /\ push[p].works[j].change.transition = "close"
             /\ \E j \in Calls(p, "edit", n) : log[j].ok
             /\ \E j \in Calls(p, "close", n) : log[j].ok

\* C31: the identifiers generated for one store are pairwise distinct.
C31_GenerateUnique ==
  \A i, j \in 1..Len(out.seen) : i # j => out.seen[i] # out.seen[j]

\* Generate returns eight lowercase hexadecimal digits.
C31_EightHexDigits ==
  \A i \in 1..Len(out.seen) :
    /\ Len(out.seen[i]) = 2 * IDLength
    /\ \A k \in 1..Len(out.seen[i]) :
         \E d \in 1..Len(HexDigits) : out.seen[i][k] = HexDigits[d]

\* Conflict detection of p's Push has not yet looked at every pending record
Detecting(p) ==
  push[p].phase = "detect" /\ push[p].i <= Len(push[p].pending)

\* The calls of p that mutate record n on the remote, as indices of the log
MutationsOf(p, n, ops) ==
  {j \in 1..Len(log) : log[j].proc = p /\ log[j].num = n /\ log[j].op \in ops}

\* The Original Snapshot of a record that existed before the run is written
\* after every remote mutation that the same Push issues for it.
SnapshotAfterMutations(p) ==
  \A j \in 1..Len(log) :
    (log[j].proc = p /\ log[j].op = "orig" /\ log[j].num \notin Created(p))
      => \A e \in MutationsOf(p, log[j].num, {"close", "reopen", "edit", "rel"}) :
           e < j

\* C32: while conflict detection has not completed for every pending record,
\* Push has issued no close, reopen, field edit or relationship change of a
\* record that existed before the run; and the Original Snapshot of a record
\* is written after the remote mutations of it.
C32_PhaseOrder ==
  \A p \in Procs :
    /\ Detecting(p)
         => \A j \in 1..Len(log) :
              (log[j].proc = p /\ log[j].op \in {"close", "reopen", "edit", "rel"})
                => log[j].num \in Created(p)
    /\ SnapshotAfterMutations(p)

\* The part of C32 that holds: the batched field edits and the relationship
\* changes of existing records come after the whole detection, and each
\* snapshot after the mutations of its record.
C32_BatchAfterDetection ==
  \A p \in Procs :
    /\ Detecting(p)
         => \A j \in 1..Len(log) :
              (log[j].proc = p /\ log[j].op \in {"edit", "rel"})
                => log[j].num \in Created(p)
    /\ SnapshotAfterMutations(p)

\* A step writes to the record set, the Original Snapshots, the vocabulary
\* cache or the pending comments.
StoreWritten ==
  \/ files' # files
  \/ originals' # originals
  \/ cache' # cache
  \/ comments' # comments

\* The Push that takes the step
Stepping(p) == push'[p] # push[p]

\* The part of C33 that holds: a Push writes to the store only between the
\* success of its Acquire and its Release.
C33_WritesInsideOwnLock ==
  [][\A p \in Procs : (StoreWritten /\ Stepping(p)) => holding[p]]_vars

\* C33: a Push writes to the store only between the success of its Acquire
\* and its Release, and while it writes no other running process is between
\* the success of an Acquire on the same directory and its Release, which is
\* where a second Push does its writes.
C33_WritesNeverOverlap ==
  [][\A p \in Procs :
       (StoreWritten /\ Stepping(p))
         => /\ holding[p]
            /\ \A q \in Procs \ {p} : ~(alive[q] /\ holding[q])]_vars

\* Where the second run starts in the log
Reruns == {m \in 1..Len(log) : log[m].op = "rerun"}

\* p's second run returned
SecondDone(p) ==
  Reruns # {} /\ push[p].phase = "done" /\ push[p].ret = "ok" /\ ~push[p].dryRun

\* The first run of p stopped after a call of it changed the remote record n
\* and before it wrote the Original Snapshot of n.
LeftHalfDone(p, n) ==
  \E m \in Reruns :
    \E j \in 1..(m - 1) :
      /\ log[j].proc = p /\ log[j].num = n /\ log[j].ok
      /\ log[j].op \in {"close", "reopen", "edit"}
      /\ \A k \in (j + 1)..(m - 1) : ~(log[k].op = "orig" /\ log[k].num = n)

\* The local file of record n
FileOf(n) == files[CHOOSE k \in 1..Len(files) : files[k].number = n]

\* C34: when the first run stopped after a remote mutation of a record
\* succeeded and before the record's Original Snapshot was written, a second
\* run on the store as it was left, which returns without error, does not
\* report the record as a conflict and leaves it with an Original Snapshot
\* equal to its local file.
C34_RerunCompletes ==
  \A p \in Procs :
    SecondDone(p)
      => \A n \in Numbers :
           LeftHalfDone(p, n)
             => /\ n \notin push[p].reported
                /\ originals[n] # NoRecord
                /\ EqualIgnoringSyncedAt(FileOf(n), originals[n])

\* The case of the claim's example holds: when the interrupted change of the
\* record was its state alone, the second run takes the remote version for
\* the same change and reports no conflict.
C34_RerunAfterTransitionOnly ==
  \A p \in Procs :
    SecondDone(p)
      => \A n \in Numbers :
           LET start == push[p].start
               local == start.files[CHOOSE k \in 1..Len(start.files) :
                                      start.files[k].number = n]
           IN  (LeftHalfDone(p, n)
                  /\ \A f \in Fields \ {"state"} : local[f] = start.originals[n][f])
                 => /\ n \notin push[p].reported
                    /\ EqualIgnoringSyncedAt(FileOf(n), originals[n])

\* The records of p's Push, as slots of the record set, that have an Original
\* Snapshot from which the fetched remote version differs while the local
\* version equals the remote one under the conflict-check equality
SameChanged(p) ==
  {k \in 1..Len(push[p].start.files) :
     LET n == push[p].start.files[k].number
     IN  /\ ~IsLocal(n)
         /\ push[p].start.originals[n] # NoRecord
         /\ push[p].fetched[n] # NoRecord
         /\ ~EqualForConflictCheck(push[p].fetched[n], push[p].start.originals[n])
         /\ EqualForConflictCheck(push[p].fetched[n], Compared(p, k).local)}

\* The records that Push finds unchanged before it fetches anything
UnchangedAtStart(p) ==
  {k \in 1..Len(push[p].start.files) :
     LET n == push[p].start.files[k].number
     IN  /\ ~IsLocal(n)
         /\ push[p].start.originals[n] # NoRecord
         /\ EqualIgnoringSyncedAt(Compared(p, k).local, push[p].start.originals[n])}

\* No record of SameChanged(p) is reported as a conflict or mutated on the
\* remote; each has the fetched remote version as its Original Snapshot and
\* is counted as unchanged.
SameChangeHandled(p) ==
  /\ \A k \in SameChanged(p) :
       LET n == push[p].start.files[k].number
       IN  /\ n \notin push[p].reported
           /\ Mutations(p, n) = {}
           /\ originals[n] = push[p].fetched[n]
  /\ SameChanged(p) # {}
       => push[p].unchanged = Cardinality(SameChanged(p) \cup UnchangedAtStart(p))

RemovesInAcquire(q) ==
  pc[q] = "try_remove" /\ pc'[q] = "try_create" /\ marker # NoMarker

\* C36: when tryAcquire removes a marker that a process of the system
\* created, be it still without its owner record, that process is dead.
C36_AcquireRemovesOnlyDead ==
  [][\A q \in Procs :
       (RemovesInAcquire(q) /\ marker.kind \in {"empty", "info"}
          /\ marker.pid \in Procs)
         => ~alive[marker.pid]]_vars

\* The part of C36 that holds: the marker that tryAcquire judged, a
\* complete one whose pid it found dead, is never that of a live process.
C36_JudgedDead ==
  [][\A q \in Procs :
       (pc[q] = "try_probe" /\ pc'[q] = "try_remove")
         => ~isProcessAlive(info[q])]_vars

\* C37: no step of a Release that was called on an already released handle
\* changes the marker.
C37_ReleaseAgainKeepsMarker ==
  [][\A p \in Procs :
       (relOf[p] = "released" /\ pc[p] \in {"rel_read", "rel_remove"}
          /\ pc'[p] # pc[p] /\ alive'[p])
         => marker' = marker]_vars

\* The case of TestDoubleRelease holds: a second Release that finds no
\* marker changes nothing and returns no error.
C37_ReleaseAgainOnEmptyDirectory ==
  [][\A p \in Procs :
       (relOf[p] = "released" /\ pc[p] = "rel_read" /\ marker = NoMarker
          /\ pc'[p] # pc[p] /\ alive'[p])
         => marker' = marker /\ result'[p] = "ok"]_vars

\* The issue number that the comment pending on record id is posted to ("":
\* the record is provisional and this run did not create it)
CommentTarget(p, id) ==
  IF IsLocal(id) THEN push[p].mapping[id] ELSE id

\* The posts of p's comment on issue n, as indices of the log
Posts(p, n) ==
  {j \in 1..Len(log) : log[j].proc = p /\ log[j].op = "comment" /\ log[j].num = n}

\* C38: of the comments pending when Push started, one whose file is gone
\* was posted with success; one whose post failed, whose issue is in the
\* conflicts of the pass or whose issue is provisional and was not created
\* in the run is still pending, and for the last two no post was sent.
C38_CommentDeletedAfterPost ==
  \A p \in Procs :
    push[p].start # NoRecord
      => \A id \in push[p].start.comments.pending :
           LET n == CommentTarget(p, id)
               conflictSet == {push[p].conflicts[k] :
                                 k \in 1..Len(push[p].conflicts)}
           IN  /\ id \notin comments.pending
                    => \E j \in Posts(p, n) : log[j].ok
               /\ (\E j \in Posts(p, n) : ~log[j].ok) => id \in comments.pending
               /\ (n \in conflictSet \/ n = "")
                    => id \in comments.pending /\ Posts(p, n) = {}

\* Push returned after the post of one comment failed, which is still
\* pending, and the post of another succeeded, whose file is gone.
C38_Witness ==
  \E p \in Procs :
    /\ RealDone(p) /\ push[p].ret = "ok"
    /\ \E id, other \in push[p].start.comments.pending :
         /\ id \in comments.pending
         /\ \E j \in Posts(p, CommentTarget(p, id)) : ~log[j].ok
         /\ other \notin comments.pending
         /\ \E j \in Posts(p, CommentTarget(p, other)) : log[j].ok

\* The first run of p did the post-batch work of record n: relationships,
\* local file, Original Snapshot.
UpdatedInFirstRun(p, n) ==
  \E m \in Reruns :
    \E j \in 1..(m - 3) :
      /\ log[j].proc = p /\ log[j].num = n /\ log[j].op = "rel"
      /\ log[j + 1].num = n /\ log[j + 1].op = "write"
      /\ log[j + 2].num = n /\ log[j + 2].op = "orig"

\* The second run of p has gone through its records once and fetched the
\* pending ones
SecondRunSorted(p) ==
  /\ Reruns # {} /\ ~push[p].dryRun /\ push[p].ret # "err"
  /\ push[p].phase \in {"detect", "batch", "post", "comments", "finish",
                        "release", "releasing", "done"}
  /\ \E j \in 1..Len(log) :
       log[j].proc = p /\ log[j].op = "load" /\ \A m \in Reruns : m < j

\* C39: a record that a Push updated has a local file equal to its Original
\* Snapshot, ignoring the synced timestamp; a second Push right after it does
\* not fetch the record, issues no remote mutation for it and counts it as
\* unchanged.
C39_SecondPushFindsUnchanged ==
  \A p \in Procs :
    \A n \in Numbers :
      UpdatedInFirstRun(p, n)
        => /\ (push[p].phase = "ready" \/ SecondRunSorted(p))
                => /\ originals[n] # NoRecord
                   /\ EqualIgnoringSyncedAt(FileOf(n), originals[n])
           /\ SecondRunSorted(p)
                => /\ \A k \in 1..Len(push[p].pending) :
                        push[p].items[push[p].pending[k].item].issue.number # n
                   /\ \A m \in Reruns :
                        \A j \in (m + 1)..Len(log) :
                          log[j].num = n
                            => log[j].op \notin {"close", "reopen", "edit",
                                                 "rel", "comment"}
                   /\ push[p].unchanged
                        >= Cardinality({x \in Numbers : UpdatedInFirstRun(p, x)})

\* The first Push retitled record 1 on the remote; the second one returned
\* after it counted the record as unchanged.
C39_Witness ==
  \E p \in Procs :
    /\ SecondRunSorted(p) /\ push[p].phase = "done" /\ push[p].ret = "ok"
    /\ \E n \in Numbers :
         /\ UpdatedInFirstRun(p, n)
         /\ \E m \in Reruns :
              \E j \in 1..(m - 1) :
                log[j].op = "edit" /\ log[j].num = n /\ log[j].ok
         /\ push[p].unchanged >= 1

\* C40: after a real Push that created provisional records and returned
\* without error, the local file of every created record equals its Original
\* Snapshot (ignoring the synced timestamp), and neither the snapshot nor the
\* title or body of the remote issue has a reference to a provisional
\* identifier that the run mapped to a number.
C40_CreatedCopiesConsistent ==
  \A p \in Procs :
    (RealDone(p) /\ push[p].ret = "ok")
      => \A n \in Created(p) :
           /\ EqualIgnoringSyncedAt(FileOf(n), originals[n])
           /\ \A t \in Mapped(push[p].mapping) :
                /\ ~RefersTo(originals[n], t)
                /\ ~HasRef(remote[n].title, t) /\ ~HasRef(remote[n].body, t)

\* The part of C40 that holds: the local file of a created record refers to
\* no provisional identifier that the run mapped.
C40_CreatedFileRemapped ==
  \A p \in Procs :
    (RealDone(p) /\ push[p].ret = "ok")
      => \A n \in Created(p) :
           \A t \in Mapped(push[p].mapping) : ~RefersTo(FileOf(n), t)

\* The body sent for a created record kept its token for a provisional
\* identifier that the run mapped.
C40_RemoteBodyKeepsToken ==
  \A p \in Procs :
    (RealDone(p) /\ push[p].ret = "ok")
      => \A n \in Created(p) :
           \A t \in Mapped(push[p].mapping) : ~HasRef(remote[n].body, t)

TypeOK ==
  /\ marker \in Markers
  /\ alive \in [Procs -> BOOLEAN]
  /\ info \in [Procs -> Pids \cup {NoPid}]
  /\ holding \in [Procs -> BOOLEAN]

====
